---- MODULE Spec2Model ----
(***************************************************************************)
(* Model of the evidence-fusion engine of image-discerner:                 *)
(*   src/src/lambdas/inference_engine.py  (identifier extraction, pattern  *)
(*       scoring, inference ranking, entity resolution)                    *)
(*   src/src/lambdas/aggregate.py         (result aggregation handler)     *)
(*                                                                         *)
(* Strings are sequences of one-character strings, so that str.lower(),    *)
(* str.upper(), str.replace() and the regular expressions of the source    *)
(* are computed character by character.  Real numbers are exact fixed      *)
(* point integers in units of 1/Unit (see Unit below).                     *)
(***************************************************************************)
EXTENDS Integers, Sequences, FiniteSets, TLC

(***************************************************************************)
(* Bounds of the model.                                                    *)
(***************************************************************************)
MaxCls == 2          \* longest classification list drawn as input

MaxWords == 2        \* most words in an OCR text drawn as input

\* most text samples MockCVBackend.extract_text joins (random.randint(1, 4)
\* in the source)
MaxTexts == 2

\* calls of classify_image the model follows on one MockCVBackend instance
MaxCalls == 2

\* invocations of api_handler the model follows
MaxRequests == 2

\* ticks of the clock that pass other than in time.sleep
MaxClock == 3

MaxResults == 3      \* longest list of branch results handed to the aggregator

(***************************************************************************)
(* Characters and the str methods used by the source.                      *)
(***************************************************************************)
UpperLetters ==
    << "A","B","C","D","E","F","G","H","I","J","K","L","M",
       "N","O","P","Q","R","S","T","U","V","W","X","Y","Z" >>

LowerLetters ==
    << "a","b","c","d","e","f","g","h","i","j","k","l","m",
       "n","o","p","q","r","s","t","u","v","w","x","y","z" >>

Range(f) == { f[i] : i \in DOMAIN f }

UpperSet == Range(UpperLetters)

LowerSet == Range(LowerLetters)

Digits == { "0","1","2","3","4","5","6","7","8","9" }

\* \s of the re module (the ASCII members that the inputs use)
Whitespace == { " ", "\t", "\n" }

\* \w of the re module
WordChars == UpperSet \cup LowerSet \cup Digits \cup { "_" }

LowerChar(c) ==
    IF c \in UpperSet
    THEN LowerLetters[CHOOSE i \in 1..26 : UpperLetters[i] = c]
    ELSE c

UpperChar(c) ==
    IF c \in LowerSet
    THEN UpperLetters[CHOOSE i \in 1..26 : LowerLetters[i] = c]
    ELSE c

\* str.lower()
Lower(s) == [ i \in 1..Len(s) |-> LowerChar(s[i]) ]

\* str.upper()
Upper(s) == [ i \in 1..Len(s) |-> UpperChar(s[i]) ]

\* str.replace(' ', '')
RECURSIVE RemoveSpaces(_)
RemoveSpaces(s) ==
    IF s = << >> THEN << >>
    ELSE IF Head(s) = " " THEN RemoveSpaces(Tail(s))
         ELSE << Head(s) >> \o RemoveSpaces(Tail(s))

\* str.startswith(prefix)
StartsWith(s, prefix) ==
    /\ Len(s) >= Len(prefix)
    /\ SubSeq(s, 1, Len(prefix)) = prefix

(***************************************************************************)
(* Regular expressions.  Every pattern of the source is a concatenation of *)
(* character classes with a greedy {lo,hi} quantifier, optionally anchored *)
(* by \b at either end.  A regex is [src, b0, items, b1]; matching follows *)
(* the backtracking order of the re module (longest repetition first).     *)
(***************************************************************************)
Item(cs, lo, hi) == [ cs |-> cs, lo |-> lo, hi |-> hi ]

Lit(s) == [ i \in 1..Len(s) |-> Item({ s[i] }, 1, 1) ]

\* src is the pattern's text as written in the source
Re(src, b0, items, b1) == [ src |-> src, b0 |-> b0, items |-> items, b1 |-> b1 ]

IsWordAt(s, i) == i >= 1 /\ i <= Len(s) /\ s[i] \in WordChars

\* \b holds between s[pos-1] and s[pos]
WordBoundary(s, pos) == IsWordAt(s, pos - 1) # IsWordAt(s, pos)

\* number of consecutive characters of class cs from pos on, at most hi
RECURSIVE RunLen(_, _, _, _)
RunLen(s, pos, cs, hi) ==
    IF hi = 0 \/ pos > Len(s) \/ s[pos] \notin cs THEN 0
    ELSE 1 + RunLen(s, pos + 1, cs, hi - 1)

\* End position (index after the last consumed character) of the first
\* match of items k.. from pos in backtracking order, 0 when there is none.
RECURSIVE MatchItems(_, _, _, _)
RECURSIVE TryReps(_, _, _, _, _)
MatchItems(re, k, s, pos) ==
    IF k > Len(re.items)
    THEN IF re.b1 => WordBoundary(s, pos) THEN pos ELSE 0
    ELSE LET it  == re.items[k]
             run == RunLen(s, pos, it.cs, it.hi)
         IN  IF run < it.lo THEN 0 ELSE TryReps(re, k, s, pos, run)

TryReps(re, k, s, pos, n) ==
    LET r == MatchItems(re, k + 1, s, pos + n)
    IN  IF r # 0 THEN r
        ELSE IF n > re.items[k].lo THEN TryReps(re, k, s, pos, n - 1)
        ELSE 0

MatchAt(re, s, pos) ==
    IF re.b0 => WordBoundary(s, pos) THEN MatchItems(re, 1, s, pos) ELSE 0

\* re.search(pattern, s) is not None
Search(re, s) == \E pos \in 1..(Len(s) + 1) : MatchAt(re, s, pos) # 0

\* re.findall(pattern, s) / pattern.finditer(s): the non-overlapping
\* matches, leftmost first.  (No pattern of the source matches the empty
\* string, so a match always advances the scan.)
RECURSIVE FindAllFrom(_, _, _)
FindAllFrom(re, s, pos) ==
    IF pos > Len(s) THEN << >>
    ELSE LET e == MatchAt(re, s, pos)
         IN  IF e = 0 THEN FindAllFrom(re, s, pos + 1)
             ELSE << SubSeq(s, pos, e - 1) >> \o FindAllFrom(re, s, e)

FindAll(re, s) == FindAllFrom(re, s, 1)

\* the pattern compiled with re.IGNORECASE: a class matches either case
IgnoreCase(re) ==
    [ re EXCEPT !.items =
        [ i \in DOMAIN re.items |->
            [ re.items[i] EXCEPT !.cs =
                re.items[i].cs
                \cup { LowerChar(c) : c \in re.items[i].cs }
                \cup { UpperChar(c) : c \in re.items[i].cs } ] ] ]

\* character classes of the source's patterns
UpperAlnum == UpperSet \cup Digits

(***************************************************************************)
(* Static tables of inference_engine.py.  confidence_base is in hundredths.*)
(***************************************************************************)
VEHICLE_PATTERNS ==
    <<
      [ name |-> "postal_delivery",
        visual_requirements |-> << <<"v","a","n">>, <<"t","r","u","c","k">>, <<"c","a","r">> >>,
        text_patterns |->
          << Re("usps\\.com", FALSE, Lit(<<"u","s","p","s",".","c","o","m">>), FALSE),
             Re("\\d{7}", FALSE, <<Item(Digits, 7, 7)>>, FALSE),
             Re("priority", FALSE, Lit(<<"p","r","i","o","r","i","t","y">>), FALSE),
             Re("express", FALSE, Lit(<<"e","x","p","r","e","s","s">>), FALSE),
             Re("mail", FALSE, Lit(<<"m","a","i","l">>), FALSE) >>,
        confidence_base |-> 80 ],
      [ name |-> "commercial_delivery",
        visual_requirements |-> << <<"t","r","u","c","k">>, <<"v","a","n">> >>,
        text_patterns |->
          << Re("fedex", FALSE, Lit(<<"f","e","d","e","x">>), FALSE),
             Re("ups", FALSE, Lit(<<"u","p","s">>), FALSE),
             Re("amazon", FALSE, Lit(<<"a","m","a","z","o","n">>), FALSE),
             Re("dhl", FALSE, Lit(<<"d","h","l">>), FALSE),
             Re("\\d{4}-\\d{4}", FALSE, <<Item(Digits, 4, 4), Item({"-"}, 1, 1), Item(Digits, 4, 4)>>, FALSE),
             Re("delivery", FALSE, Lit(<<"d","e","l","i","v","e","r","y">>), FALSE) >>,
        confidence_base |-> 70 ],
      [ name |-> "shipping_container",
        visual_requirements |-> << <<"c","o","n","t","a","i","n","e","r">>, <<"t","r","u","c","k">> >>,
        text_patterns |->
          << Re("[A-Z]{4}\\s?\\d{6}\\s?\\d", FALSE, <<Item(UpperSet, 4, 4), Item(Whitespace, 0, 1), Item(Digits, 6, 6),
                 Item(Whitespace, 0, 1), Item(Digits, 1, 1)>>, FALSE),
             Re("maersk", FALSE, Lit(<<"m","a","e","r","s","k">>), FALSE),
             Re("evergreen", FALSE, Lit(<<"e","v","e","r","g","r","e","e","n">>), FALSE),
             Re("cosco", FALSE, Lit(<<"c","o","s","c","o">>), FALSE),
             Re("msc", FALSE, Lit(<<"m","s","c">>), FALSE) >>,
        confidence_base |-> 90 ],
      [ name |-> "emergency_vehicle",
        visual_requirements |-> << <<"c","a","r">>, <<"t","r","u","c","k">>, <<"v","a","n">> >>,
        text_patterns |->
          << Re("police", FALSE, Lit(<<"p","o","l","i","c","e">>), FALSE),
             Re("fire", FALSE, Lit(<<"f","i","r","e">>), FALSE),
             Re("ambulance", FALSE, Lit(<<"a","m","b","u","l","a","n","c","e">>), FALSE),
             Re("ems", FALSE, Lit(<<"e","m","s">>), FALSE),
             Re("sheriff", FALSE, Lit(<<"s","h","e","r","i","f","f">>), FALSE),
             Re("\\d{3}", FALSE, <<Item(Digits, 3, 3)>>, FALSE) >>,
        confidence_base |-> 85 ]
    >>

OPERATORS ==
    <<
      [ name |-> "UPS",
        patterns |->
          << Re("\\bups\\b", TRUE, Lit(<<"u","p","s">>), TRUE),
             Re("united parcel", FALSE, Lit(<<"u","n","i","t","e","d"," ","p","a","r","c","e","l">>), FALSE) >> ],
      [ name |-> "FedEx",
        patterns |->
          << Re("\\bfedex\\b", TRUE, Lit(<<"f","e","d","e","x">>), TRUE),
             Re("federal express", FALSE, Lit(<<"f","e","d","e","r","a","l"," ","e","x","p","r","e","s","s">>), FALSE) >> ],
      [ name |-> "USPS",
        patterns |->
          << Re("\\busps\\b", TRUE, Lit(<<"u","s","p","s">>), TRUE),
             Re("united states postal", FALSE, Lit(<<"u","n","i","t","e","d"," ","s","t","a","t","e","s"," ","p","o","s","t","a","l">>), FALSE),
             Re("us postal", FALSE, Lit(<<"u","s"," ","p","o","s","t","a","l">>), FALSE),
             Re("usps\\.com", FALSE, Lit(<<"u","s","p","s",".","c","o","m">>), FALSE) >> ],
      [ name |-> "Amazon",
        patterns |->
          << Re("\\bamazon\\b", TRUE, Lit(<<"a","m","a","z","o","n">>), TRUE),
             Re("prime", FALSE, Lit(<<"p","r","i","m","e">>), FALSE) >> ],
      [ name |-> "DHL",
        patterns |->
          << Re("\\bdhl\\b", TRUE, Lit(<<"d","h","l">>), TRUE) >> ],
      [ name |-> "Maersk",
        patterns |->
          << Re("\\bmaersk\\b", TRUE, Lit(<<"m","a","e","r","s","k">>), TRUE) >> ],
      [ name |-> "Evergreen",
        patterns |->
          << Re("\\bevergreen\\b", TRUE, Lit(<<"e","v","e","r","g","r","e","e","n">>), TRUE) >> ],
      [ name |-> "COSCO",
        patterns |->
          << Re("\\bcosco\\b", TRUE, Lit(<<"c","o","s","c","o">>), TRUE) >> ],
      [ name |-> "MSC",
        patterns |->
          << Re("\\bmsc\\b", TRUE, Lit(<<"m","s","c">>), TRUE) >> ],
      [ name |-> "Police",
        patterns |->
          << Re("\\bpolice\\b", TRUE, Lit(<<"p","o","l","i","c","e">>), TRUE),
             Re("\\bpd\\b", TRUE, Lit(<<"p","d">>), TRUE),
             Re("sheriff", FALSE, Lit(<<"s","h","e","r","i","f","f">>), FALSE) >> ],
      [ name |-> "Fire",
        patterns |->
          << Re("\\bfire\\b", TRUE, Lit(<<"f","i","r","e">>), TRUE),
             Re("\\bfd\\b", TRUE, Lit(<<"f","d">>), TRUE) >> ],
      [ name |-> "Ambulance",
        patterns |->
          << Re("\\bambulance\\b", TRUE, Lit(<<"a","m","b","u","l","a","n","c","e">>), TRUE),
             Re("\\bems\\b", TRUE, Lit(<<"e","m","s">>), TRUE) >> ]
    >>


\* patterns of extract_license_plates_with_jurisdiction
PLATE_PATTERNS ==
    << Re("\\b[A-Z0-9]{2,3}\\s?[A-Z0-9]{3,4}\\b", TRUE,
          <<Item(UpperAlnum, 2, 3), Item(Whitespace, 0, 1), Item(UpperAlnum, 3, 4)>>, TRUE),
       Re("\\b[A-Z]{3}\\s?\\d{3,4}\\b", TRUE,
          <<Item(UpperSet, 3, 3), Item(Whitespace, 0, 1), Item(Digits, 3, 4)>>, TRUE),
       Re("\\b\\d{3}\\s?[A-Z]{3}\\b", TRUE,
          <<Item(Digits, 3, 3), Item(Whitespace, 0, 1), Item(UpperSet, 3, 3)>>, TRUE) >>

\* seven_digit_pattern of extract_fleet_ids
SEVEN_DIGIT_PATTERN == Re("\\b\\d{7}\\b", TRUE, <<Item(Digits, 7, 7)>>, TRUE)

\* fleet_patterns of extract_fleet_ids
FLEET_PATTERNS ==
    << Re("\\b\\d{4}-\\d{4}\\b", TRUE,
          <<Item(Digits, 4, 4), Item({"-"}, 1, 1), Item(Digits, 4, 4)>>, TRUE),
       Re("\\b[A-Z]{2}\\d{4,6}\\b", TRUE,
          <<Item(UpperSet, 2, 2), Item(Digits, 4, 6)>>, TRUE) >>

\* container_pattern of extract_container_ids
CONTAINER_PATTERN ==
    Re("\\b[A-Z]{4}\\s?\\d{6}\\s?\\d\\b", TRUE,
       <<Item(UpperSet, 4, 4), Item(Whitespace, 0, 1), Item(Digits, 6, 6),
         Item(Whitespace, 0, 1), Item(Digits, 1, 1)>>, TRUE)

\* prefixes skipped by extract_container_ids
CARRIER_PREFIXES == { <<"U","S","P","S">>, <<"F","E","D","X">>, <<"U","P","S","X">> }

\* the prefixes of the identifier strings
PLATE_PREFIX == <<"l","i","c","e","n","s","e","_","p","l","a","t","e",":","u","n","k","n","o","w","n",":">>

PLATE_KIND == <<"l","i","c","e","n","s","e","_","p","l","a","t","e",":">>

FLEET_PREFIX == <<"f","l","e","e","t",":">>

CONTAINER_PREFIX == <<"c","o","n","t","a","i","n","e","r","_","i","d",":">>

(***************************************************************************)
(* Identifier extraction.                                                  *)
(***************************************************************************)
\* the loop "for match in matches: out.append(prefix + clean(match))"
RECURSIVE TagMatches(_, _, _)
TagMatches(prefix, matches, strip) ==
    IF matches = << >> THEN << >>
    ELSE << prefix \o (IF strip THEN RemoveSpaces(Head(matches)) ELSE Head(matches)) >>
         \o TagMatches(prefix, Tail(matches), strip)

RECURSIVE PlatesFrom(_, _)
PlatesFrom(k, extracted_text) ==
    IF k > Len(PLATE_PATTERNS) THEN << >>
    ELSE TagMatches(PLATE_PREFIX, FindAll(PLATE_PATTERNS[k], Upper(extracted_text)), TRUE)
         \o PlatesFrom(k + 1, extracted_text)

extract_license_plates_with_jurisdiction(extracted_text) ==
    PlatesFrom(1, extracted_text)

RECURSIVE FleetFrom(_, _)
FleetFrom(k, extracted_text) ==
    IF k > Len(FLEET_PATTERNS) THEN << >>
    ELSE TagMatches(FLEET_PREFIX, FindAll(FLEET_PATTERNS[k], Upper(extracted_text)), FALSE)
         \o FleetFrom(k + 1, extracted_text)

extract_fleet_ids(extracted_text) ==
    TagMatches(FLEET_PREFIX, FindAll(SEVEN_DIGIT_PATTERN, extracted_text), FALSE)
    \o FleetFrom(1, extracted_text)

\* mutant: matches that start with a carrier prefix are not skipped
RECURSIVE ContainersOfNoSkip(_)
ContainersOfNoSkip(matches) ==
    IF matches = << >> THEN << >>
    ELSE << CONTAINER_PREFIX \o RemoveSpaces(Head(matches)) >>
         \o ContainersOfNoSkip(Tail(matches))

RECURSIVE ContainersOf(_)
ContainersOf(matches) ==
    IF matches = << >> THEN << >>
    ELSE LET clean_id == RemoveSpaces(Head(matches))
         IN  (IF ~ \E op \in CARRIER_PREFIXES : StartsWith(clean_id, op)
              THEN << CONTAINER_PREFIX \o clean_id >>
              ELSE << >>)
             \o ContainersOf(Tail(matches))

extract_container_ids(extracted_text) ==
    ContainersOf(FindAll(CONTAINER_PATTERN, Upper(extracted_text)))

extract_structured_identifiers(text_blocks, extracted_text) ==
    extract_license_plates_with_jurisdiction(extracted_text)
    \o extract_fleet_ids(extracted_text)
    \o extract_container_ids(extracted_text)

(***************************************************************************)
(* Numbers.  Every float of the source is an exact integer multiple of     *)
(* 1/Unit: Unit is divisible by every evidence count the model can reach   *)
(* and by the decimal constants of the source.                             *)
(***************************************************************************)
RECURSIVE Gcd(_, _)
Gcd(a, b) == IF b = 0 THEN a ELSE Gcd(b, a % b)

RECURSIVE LcmUpTo(_)
LcmUpTo(n) == IF n <= 1 THEN 1
              ELSE LET l == LcmUpTo(n - 1) IN (l \div Gcd(l, n)) * n

Max(a, b) == IF a >= b THEN a ELSE b

Min(a, b) == IF a <= b THEN a ELSE b

RECURSIVE MaxTextPatterns(_)
MaxTextPatterns(k) ==
    IF k > Len(VEHICLE_PATTERNS) THEN 0
    ELSE Max(Len(VEHICLE_PATTERNS[k].text_patterns), MaxTextPatterns(k + 1))

\* the largest divisor the source applies: evidence_count, len(confidence_scores)
MaxDivisor == MaxCls + MaxTextPatterns(1)

Unit == 100000 * LcmUpTo(MaxDivisor)

\* the decimal n/d as a multiple of 1/Unit
Frac(n, d) == (Unit \div d) * n

\* x * (n/d), exact because d divides x
MulFrac(x, n, d) == (x \div d) * n

\* dict.get(key, default)
Get(d, key, default) == IF key \in DOMAIN d THEN d[key] ELSE default

\* x in list
InList(x, list) == \E i \in 1..Len(list) : list[i] = x

(***************************************************************************)
(* calculate_pattern_match_score                                           *)
(***************************************************************************)
\* mutant: a visual match weighs 0.5 of its confidence
RECURSIVE VisualLoopHalfWeight(_, _, _, _)
VisualLoopHalfWeight(pattern_config, classifications, i, acc) ==
    IF i > Len(classifications) THEN acc
    ELSE LET classification == classifications[i]
             subcategory == Lower(Get(classification, "subcategory", << >>))
         IN  IF InList(subcategory, pattern_config.visual_requirements)
             THEN VisualLoopHalfWeight(pattern_config, classifications, i + 1,
                      [ visual_matches |-> acc.visual_matches + 1,
                        score |-> acc.score
                                  + MulFrac(Get(classification, "confidence", 0), 5, 10) ])
             ELSE VisualLoopHalfWeight(pattern_config, classifications, i + 1, acc)

\* the loop over classifications (visual requirements)
RECURSIVE VisualLoop(_, _, _, _)
VisualLoop(pattern_config, classifications, i, acc) ==
    IF i > Len(classifications) THEN acc
    ELSE LET classification == classifications[i]
             subcategory == Lower(Get(classification, "subcategory", << >>))
         IN  IF InList(subcategory, pattern_config.visual_requirements)
             THEN VisualLoop(pattern_config, classifications, i + 1,
                      [ visual_matches |-> acc.visual_matches + 1,
                        score |-> acc.score
                                  + MulFrac(Get(classification, "confidence", 0), 4, 10) ])
             ELSE VisualLoop(pattern_config, classifications, i + 1, acc)

\* the loop over text patterns
RECURSIVE TextLoop(_, _, _, _)
TextLoop(text_patterns, text_lower, k, acc) ==
    IF k > Len(text_patterns) THEN acc
    ELSE IF Search(text_patterns[k], text_lower)
         THEN TextLoop(text_patterns, text_lower, k + 1,
                  [ text_matches |-> acc.text_matches + 1,
                    score |-> acc.score + Frac(3, 10) ])
         ELSE TextLoop(text_patterns, text_lower, k + 1, acc)

\* mutant: the bonus is added after the normalisation
BonusAfterNormalize(score, visual_matches, text_matches) ==
    LET evidence_count == visual_matches + text_matches
        normalized == IF evidence_count > 0
                      THEN Min(score \div evidence_count, Unit) ELSE score
    IN  IF text_matches > 1 THEN normalized + Frac(1, 10) ELSE normalized

\* bonus for multiple text matches, then normalisation by evidence count
BonusAndNormalize(score, visual_matches, text_matches) ==
    LET evidence_count == visual_matches + text_matches
        with_bonus == IF text_matches > 1 THEN score + Frac(1, 10) ELSE score
    IN  IF evidence_count > 0
        THEN Min(with_bonus \div evidence_count, Unit)
        ELSE with_bonus

\* mutant: text evidence alone is scored (no "must have visual evidence")
calculate_pattern_match_score_no_visual_gate(pattern_config, classifications, extracted_text, text_blocks) ==
    LET vis == VisualLoop(pattern_config, classifications, 1,
                          [ visual_matches |-> 0, score |-> 0 ])
        txt == TextLoop(pattern_config.text_patterns, Lower(extracted_text), 1,
                        [ text_matches |-> 0, score |-> vis.score ])
    IN  BonusAndNormalize(txt.score, vis.visual_matches, txt.text_matches)

calculate_pattern_match_score(pattern_config, classifications, extracted_text, text_blocks) ==
    LET vis == VisualLoop(pattern_config, classifications, 1,
                          [ visual_matches |-> 0, score |-> 0 ])
    IN  IF vis.visual_matches = 0 THEN 0
        ELSE LET text_lower == Lower(extracted_text)
                 txt == TextLoop(pattern_config.text_patterns, text_lower, 1,
                                 [ text_matches |-> 0, score |-> vis.score ])
             IN  BonusAndNormalize(txt.score, vis.visual_matches, txt.text_matches)

(***************************************************************************)
(* generate_description.  The result string is kept as its parts:          *)
(* base + detail + ", ".join(values).                                      *)
(***************************************************************************)
DESCRIPTIONS ==
    [ postal_delivery |-> "Postal delivery vehicle",
      commercial_delivery |-> "Commercial delivery vehicle",
      shipping_container |-> "Shipping container",
      emergency_vehicle |-> "Emergency vehicle" ]

\* id.split(':')[-1]
RECURSIVE AfterLastColon(_)
AfterLastColon(s) ==
    IF \E i \in 1..Len(s) : s[i] = ":"
    THEN AfterLastColon(SubSeq(s, (CHOOSE i \in 1..Len(s) : s[i] = ":") + 1, Len(s)))
    ELSE s

\* [id.split(':')[-1] for id in identifiers if id.startswith(prefix)]
RECURSIVE ValuesWithPrefix(_, _)
ValuesWithPrefix(identifiers, prefix) ==
    IF identifiers = << >> THEN << >>
    ELSE (IF StartsWith(Head(identifiers), prefix)
          THEN << AfterLastColon(Head(identifiers)) >> ELSE << >>)
         \o ValuesWithPrefix(Tail(identifiers), prefix)

generate_description(vehicle_type, identifiers) ==
    LET base_desc == IF vehicle_type \in DOMAIN DESCRIPTIONS
                     THEN DESCRIPTIONS[vehicle_type] ELSE vehicle_type
        fleet_ids == ValuesWithPrefix(identifiers, FLEET_PREFIX)
        container_ids == ValuesWithPrefix(identifiers, CONTAINER_PREFIX)
        license_plates == ValuesWithPrefix(identifiers, PLATE_KIND)
    IN  IF fleet_ids # << >>
        THEN IF Len(fleet_ids) = 1
             THEN [ base |-> base_desc, detail |-> " with fleet ID ", values |-> fleet_ids ]
             ELSE [ base |-> base_desc, detail |-> " with fleet IDs ", values |-> fleet_ids ]
        ELSE IF container_ids # << >>
        THEN [ base |-> base_desc, detail |-> " ", values |-> << container_ids[1] >> ]
        ELSE IF license_plates # << >>
        THEN [ base |-> base_desc, detail |-> " with license plate ",
               values |-> << license_plates[1] >> ]
        ELSE [ base |-> base_desc, detail |-> "", values |-> << >> ]

(***************************************************************************)
(* infer_vehicle_context                                                   *)
(***************************************************************************)
\* "if match_score > 0.3"
PassesThreshold(match_score) == match_score > Frac(3, 10)

\* mutant: the pattern's base confidence is not applied
FinalConfidenceNoBase(match_score, base_confidence) ==
    Min(match_score, Frac(95, 100))

\* final_confidence = min(match_score * base_confidence, 0.95)
FinalConfidence(match_score, base_confidence) ==
    Min(MulFrac(match_score, base_confidence, 100), Frac(95, 100))

\* visual evidence tags, in classification order
RECURSIVE VisualEvidence(_, _)
VisualEvidence(pattern_config, classifications) ==
    IF classifications = << >> THEN << >>
    ELSE LET subcategory == Lower(Get(Head(classifications), "subcategory", << >>))
         IN  (IF InList(subcategory, pattern_config.visual_requirements)
              THEN << [ tag |-> "detected_", what |-> subcategory ] >>
              ELSE << >>)
             \o VisualEvidence(pattern_config, Tail(classifications))

\* text evidence tags, in pattern order
RECURSIVE TextEvidence(_, _)
TextEvidence(text_patterns, text_lower) ==
    IF text_patterns = << >> THEN << >>
    ELSE (IF Search(Head(text_patterns), text_lower)
          THEN << [ tag |-> "text_pattern_", pattern |-> Head(text_patterns).src ] >>
          ELSE << >>)
         \o TextEvidence(Tail(text_patterns), text_lower)

\* mutant: fleet identifiers are kept for every vehicle type
RECURSIVE RelevantIdentifiersFleetAlways(_, _)
RelevantIdentifiersFleetAlways(vehicle_type, structured_identifiers) ==
    IF structured_identifiers = << >> THEN << >>
    ELSE LET identifier == Head(structured_identifiers)
             keep == \/ StartsWith(identifier, FLEET_PREFIX)
                     \/ vehicle_type = "shipping_container"
                        /\ StartsWith(identifier, CONTAINER_PREFIX)
                     \/ StartsWith(identifier, PLATE_KIND)
         IN  (IF keep THEN << identifier >> ELSE << >>)
             \o RelevantIdentifiersFleetAlways(vehicle_type, Tail(structured_identifiers))

\* filter of the identifiers relevant to a vehicle type
RECURSIVE RelevantIdentifiers(_, _)
RelevantIdentifiers(vehicle_type, structured_identifiers) ==
    IF structured_identifiers = << >> THEN << >>
    ELSE LET identifier == Head(structured_identifiers)
             keep == \/ vehicle_type = "postal_delivery"
                        /\ StartsWith(identifier, FLEET_PREFIX)
                     \/ vehicle_type = "shipping_container"
                        /\ StartsWith(identifier, CONTAINER_PREFIX)
                     \/ StartsWith(identifier, PLATE_KIND)
         IN  (IF keep THEN << identifier >> ELSE << >>)
             \o RelevantIdentifiers(vehicle_type, Tail(structured_identifiers))

\* the body of the loop over VEHICLE_PATTERNS, from pattern k on
RECURSIVE InferLoop(_, _, _, _, _)
InferLoop(k, classifications, extracted_text, text_blocks, structured_identifiers) ==
    IF k > Len(VEHICLE_PATTERNS) THEN << >>
    ELSE LET pattern_config == VEHICLE_PATTERNS[k]
             vehicle_type == pattern_config.name
             match_score == calculate_pattern_match_score(
                                pattern_config, classifications, extracted_text, text_blocks)
             relevant_identifiers ==
                 RelevantIdentifiers(vehicle_type, structured_identifiers)
             inference ==
                 [ vehicle_type |-> vehicle_type,
                   confidence |-> FinalConfidence(match_score, pattern_config.confidence_base),
                   evidence |-> VisualEvidence(pattern_config, classifications)
                                \o TextEvidence(pattern_config.text_patterns,
                                                Lower(extracted_text)),
                   structured_identifiers |-> relevant_identifiers,
                   description |-> generate_description(vehicle_type, relevant_identifiers) ]
         IN  (IF PassesThreshold(match_score) THEN << inference >> ELSE << >>)
             \o InferLoop(k + 1, classifications, extracted_text, text_blocks,
                          structured_identifiers)

\* position of x in a list sorted by confidence, descending: after every
\* element whose confidence is at least x's (list.sort is stable)
RECURSIVE InsertDesc(_, _)
InsertDesc(sorted, x) ==
    IF sorted = << >> THEN << x >>
    ELSE IF Head(sorted).confidence >= x.confidence
         THEN << Head(sorted) >> \o InsertDesc(Tail(sorted), x)
         ELSE << x >> \o sorted

\* mutant: an element is placed before the elements of equal confidence
RECURSIVE InsertDescUnstable(_, _)
InsertDescUnstable(sorted, x) ==
    IF sorted = << >> THEN << x >>
    ELSE IF Head(sorted).confidence > x.confidence
         THEN << Head(sorted) >> \o InsertDescUnstable(Tail(sorted), x)
         ELSE << x >> \o sorted

RECURSIVE SortUnstableFrom(_, _)
SortUnstableFrom(list, acc) ==
    IF list = << >> THEN acc
    ELSE SortUnstableFrom(Tail(list), InsertDescUnstable(acc, Head(list)))

\* mutant: sort(reverse=True) replaced by a sort that reverses ties
SortReversingTies(list) == SortUnstableFrom(list, << >>)

RECURSIVE SortFrom(_, _)
SortFrom(list, acc) ==
    IF list = << >> THEN acc
    ELSE SortFrom(Tail(list), InsertDesc(acc, Head(list)))

\* inferences.sort(key=lambda x: x['confidence'], reverse=True)
SortByConfidenceDesc(list) == SortFrom(list, << >>)

infer_vehicle_context(classifications, text_analysis) ==
    LET extracted_text == Get(text_analysis, "extracted_text", << >>)
        text_blocks == Get(text_analysis, "text_blocks", << >>)
        structured_identifiers ==
            extract_structured_identifiers(text_blocks, extracted_text)
    IN  SortByConfidenceDesc(
            InferLoop(1, classifications, extracted_text, text_blocks,
                      structured_identifiers))

(***************************************************************************)
(* extract_operator_from_text                                              *)
(***************************************************************************)
None == "None"

\* first operator, in table order, one of whose patterns matches
\* mutant: a later operator of the table replaces an earlier one
RECURSIVE OperatorFromLast(_, _)
OperatorFromLast(k, text_lower) ==
    IF k > Len(OPERATORS) THEN None
    ELSE LET later == OperatorFromLast(k + 1, text_lower)
         IN  IF later # None THEN later
             ELSE IF \E j \in 1..Len(OPERATORS[k].patterns) :
                        Search(OPERATORS[k].patterns[j], text_lower)
             THEN OPERATORS[k].name
             ELSE None

RECURSIVE OperatorFrom(_, _)
OperatorFrom(k, text_lower) ==
    IF k > Len(OPERATORS) THEN None
    ELSE IF \E j \in 1..Len(OPERATORS[k].patterns) :
                Search(OPERATORS[k].patterns[j], text_lower)
         THEN OPERATORS[k].name
         ELSE OperatorFrom(k + 1, text_lower)

extract_operator_from_text(extracted_text) ==
    OperatorFrom(1, Lower(extracted_text))

(***************************************************************************)
(* determine_entities                                                      *)
(***************************************************************************)
STR_van == <<"v","a","n">>

STR_truck == <<"t","r","u","c","k">>

STR_unknown == <<"u","n","k","n","o","w","n">>

STR_cargo_container == <<"c","a","r","g","o","_","c","o","n","t","a","i","n","e","r">>

STR_commercial_vehicle_van == <<"c","o","m","m","e","r","c","i","a","l","_","v","e","h","i","c","l","e",":","v","a","n">>

STR_commercial_vehicle_ == <<"c","o","m","m","e","r","c","i","a","l","_","v","e","h","i","c","l","e",":">>

STR_emergency_vehicle_response == <<"e","m","e","r","g","e","n","c","y","_","v","e","h","i","c","l","e",":","r","e","s","p","o","n","s","e">>

TYPE_MAPPING ==
    [ postal_delivery |-> STR_commercial_vehicle_van,
      commercial_delivery |-> STR_commercial_vehicle_van,
      shipping_container |-> STR_cargo_container,
      emergency_vehicle |-> STR_emergency_vehicle_response ]

EmptyDict == << >>

\* mutant: the loop stops after the first qualifying inference
RECURSIVE EntitiesFromInferencesFirstOnly(_, _)
EntitiesFromInferencesFirstOnly(contextual_inferences, extracted_text) ==
    IF contextual_inferences = << >> THEN << >>
    ELSE LET inference == Head(contextual_inferences)
             vehicle_type == inference.vehicle_type
             entity ==
                 [ type |-> Get(TYPE_MAPPING, vehicle_type, STR_unknown),
                   operator |-> extract_operator_from_text(extracted_text),
                   identifiers |-> Get(inference, "structured_identifiers", << >>),
                   confidence |-> inference.confidence,
                   properties |-> EmptyDict ]
         IN  IF inference.confidence > Frac(3, 10) THEN << entity >>
             ELSE EntitiesFromInferencesFirstOnly(Tail(contextual_inferences),
                                                  extracted_text)

\* the loop over contextual_inferences
RECURSIVE EntitiesFromInferences(_, _)
EntitiesFromInferences(contextual_inferences, extracted_text) ==
    IF contextual_inferences = << >> THEN << >>
    ELSE LET inference == Head(contextual_inferences)
             vehicle_type == inference.vehicle_type
             entity ==
                 [ type |-> Get(TYPE_MAPPING, vehicle_type, STR_unknown),
                   operator |-> extract_operator_from_text(extracted_text),
                   identifiers |-> Get(inference, "structured_identifiers", << >>),
                   confidence |-> inference.confidence,
                   properties |-> EmptyDict ]
         IN  (IF inference.confidence > Frac(3, 10) THEN << entity >> ELSE << >>)
             \o EntitiesFromInferences(Tail(contextual_inferences), extracted_text)

\* mutant: among equal maxima the last one wins
RECURSIVE MaxByConfidenceLast(_, _, _)
MaxByConfidenceLast(classifications, i, best) ==
    IF i > Len(classifications) THEN best
    ELSE IF Get(classifications[i], "confidence", 0) >= Get(best, "confidence", 0)
         THEN MaxByConfidenceLast(classifications, i + 1, classifications[i])
         ELSE MaxByConfidenceLast(classifications, i + 1, best)

\* max(classifications, key=lambda x: x.get('confidence', 0)): the first
\* element of maximal confidence
RECURSIVE MaxByConfidence(_, _, _)
MaxByConfidence(classifications, i, best) ==
    IF i > Len(classifications) THEN best
    ELSE IF Get(classifications[i], "confidence", 0) > Get(best, "confidence", 0)
         THEN MaxByConfidence(classifications, i + 1, classifications[i])
         ELSE MaxByConfidence(classifications, i + 1, best)

\* the fallback entity built from the best classification
FallbackEntity(classifications, extracted_text, structured_identifiers) ==
    LET best_classification == MaxByConfidence(classifications, 2, classifications[1])
        category == Get(best_classification, "category", "unknown")
        subcategory == Get(best_classification, "subcategory", STR_unknown)
        entity_type ==
            IF category = "vehicle"
            THEN IF subcategory \in { STR_van, STR_truck }
                 THEN STR_commercial_vehicle_van
                 ELSE STR_commercial_vehicle_ \o subcategory
            ELSE IF category = "container" THEN STR_cargo_container
            ELSE STR_unknown
    IN  [ type |-> entity_type,
          operator |-> extract_operator_from_text(extracted_text),
          identifiers |-> structured_identifiers,
          confidence |-> Get(best_classification, "confidence", 0),
          properties |-> EmptyDict ]

\* mutant: the unknown entity is built without the identifiers
UnknownEntityWithoutIdentifiers(structured_identifiers) ==
    [ type |-> STR_unknown,
      operator |-> None,
      identifiers |-> << >>,
      confidence |-> 0,
      properties |-> EmptyDict ]

\* the minimal unknown entity
UnknownEntity(structured_identifiers) ==
    [ type |-> STR_unknown,
      operator |-> None,
      identifiers |-> structured_identifiers,
      confidence |-> 0,
      properties |-> EmptyDict ]

\* mutant: the final "if not entities" block is missing
determine_entities_no_synthetic(classifications, text_analysis, contextual_inferences) ==
    LET extracted_text == Get(text_analysis, "extracted_text", << >>)
        structured_identifiers ==
            extract_structured_identifiers(
                Get(text_analysis, "text_blocks", << >>), extracted_text)
        from_inferences == EntitiesFromInferences(contextual_inferences, extracted_text)
    IN  IF from_inferences = << >> /\ classifications # << >>
        THEN << FallbackEntity(classifications, extracted_text, structured_identifiers) >>
        ELSE from_inferences

determine_entities(classifications, text_analysis, contextual_inferences) ==
    LET extracted_text == Get(text_analysis, "extracted_text", << >>)
        structured_identifiers ==
            extract_structured_identifiers(
                Get(text_analysis, "text_blocks", << >>), extracted_text)
        from_inferences == EntitiesFromInferences(contextual_inferences, extracted_text)
        with_fallback ==
            IF from_inferences = << >> /\ classifications # << >>
            THEN << FallbackEntity(classifications, extracted_text,
                                   structured_identifiers) >>
            ELSE from_inferences
    IN  IF with_fallback = << >>
        THEN << UnknownEntity(structured_identifiers) >>
        ELSE with_fallback

(***************************************************************************)
(* aggregate.py                                                            *)
(***************************************************************************)
\* 'sub' in s
Contains(s, sub) ==
    \E i \in 1..(Len(s) - Len(sub) + 1) : SubSeq(s, i, i + Len(sub) - 1) = sub

\* dict with one more key (d[key] = value)
SetKey(d, key, value) ==
    [ k \in DOMAIN d \cup { key } |-> IF k = key THEN value ELSE d[k] ]

\* the body of the loop of merge_identifiers_with_classifications
EnhancedItem(classification, text_identifiers) ==
    IF Get(classification, "category", None) = "vehicle"
    THEN IF Contains(Lower(Get(classification, "subcategory", << >>)), STR_truck)
         THEN SetKey(SetKey(classification,
                            "fleet_numbers", Get(text_identifiers, "fleet_numbers", << >>)),
                     "license_plates", Get(text_identifiers, "license_plates", << >>))
         ELSE classification
    ELSE IF Get(classification, "category", None) = "container"
    THEN SetKey(classification,
                "container_ids", Get(text_identifiers, "container_ids", << >>))
    ELSE classification

\* mutant: enhanced_item is the classification itself, not a copy, so the
\* added keys show in the caller's list too
RECURSIVE MergeLoopNoCopy(_, _, _)
MergeLoopNoCopy(text_identifiers, i, acc) ==
    IF i > Len(acc.classifications) THEN acc
    ELSE LET enhanced_item == EnhancedItem(acc.classifications[i], text_identifiers)
         IN  MergeLoopNoCopy(text_identifiers, i + 1,
                 [ enhanced_results |-> Append(acc.enhanced_results, enhanced_item),
                   classifications |->
                       [ acc.classifications EXCEPT ![i] = enhanced_item ] ])

\* the loop "for classification in classifications".  acc holds the list
\* being built and the caller's list: enhanced_item is a copy, so the keys
\* set on it leave the caller's dict as it was.
RECURSIVE MergeLoop(_, _, _)
MergeLoop(text_identifiers, i, acc) ==
    IF i > Len(acc.classifications) THEN acc
    ELSE LET enhanced_item == EnhancedItem(acc.classifications[i], text_identifiers)
         IN  MergeLoop(text_identifiers, i + 1,
                 [ enhanced_results |-> Append(acc.enhanced_results, enhanced_item),
                   classifications |-> acc.classifications ])

merge_identifiers_with_classifications(classifications, text_identifiers) ==
    MergeLoop(text_identifiers, 1,
              [ enhanced_results |-> << >>,
                classifications |-> classifications ]).enhanced_results

\* the caller's classification list once the merge has returned
ClassificationsAfterMerge(classifications, text_identifiers) ==
    MergeLoop(text_identifiers, 1,
              [ enhanced_results |-> << >>,
                classifications |-> classifications ]).classifications

\* sum(d.values())
RECURSIVE SumValues(_, _)
SumValues(d, keys) ==
    IF keys = {} THEN 0
    ELSE LET k == CHOOSE x \in keys : TRUE
         IN  d[k] + SumValues(d, keys \ { k })

\* mutant: the sum of the scores is not divided by their number
calculate_overall_confidence_sum(classification_results, text_results) ==
    LET classification_confidence == Get(classification_results, "confidence_scores", EmptyDict)
        text_confidence ==
            Get(Get(text_results, "processing_metadata", EmptyDict), "text_confidence", 0)
    IN  IF DOMAIN classification_confidence # {}
        THEN MulFrac(SumValues(classification_confidence, DOMAIN classification_confidence),
                     7, 10)
             + MulFrac(text_confidence, 3, 10)
        ELSE MulFrac(text_confidence, 5, 10)

calculate_overall_confidence(classification_results, text_results) ==
    LET classification_confidence == Get(classification_results, "confidence_scores", EmptyDict)
        text_confidence ==
            Get(Get(text_results, "processing_metadata", EmptyDict), "text_confidence", 0)
    IN  IF DOMAIN classification_confidence # {}
        THEN LET avg_classification_confidence ==
                     SumValues(classification_confidence, DOMAIN classification_confidence)
                     \div Cardinality(DOMAIN classification_confidence)
             IN  MulFrac(avg_classification_confidence, 7, 10)
                 + MulFrac(text_confidence, 3, 10)
        ELSE MulFrac(text_confidence, 5, 10)

\* A JSON null in the place of a branch result (None in Python).
JsonNull == [ json_null |-> TRUE ]

IsDict(x) == x # JsonNull

\* the event is a list, or a dict that may carry the list under 'body'
ListEvent(items) == [ type |-> "list", items |-> items ]

DictEvent(dict) == [ type |-> "dict", dict |-> dict ]

\* mutant: a branch body counts only when its list or text is non-empty
\* (a truth test in the place of the key test)
RECURSIVE ParseLoopTruthy(_, _, _)
ParseLoopTruthy(parallel_results, i, acc) ==
    IF i > Len(parallel_results) THEN acc
    ELSE LET result == parallel_results[i]
         IN  IF ~ IsDict(result) THEN [ acc EXCEPT !.raised = TRUE ]
             ELSE LET result_body == Get(result, "body", EmptyDict)
                  IN  IF Get(result_body, "classifications", << >>) # << >>
                      THEN ParseLoopTruthy(parallel_results, i + 1,
                               [ acc EXCEPT !.classification_results = << result_body >> ])
                      ELSE IF Get(result_body, "extracted_text", << >>) # << >>
                      THEN ParseLoopTruthy(parallel_results, i + 1,
                               [ acc EXCEPT !.text_results = << result_body >> ])
                      ELSE ParseLoopTruthy(parallel_results, i + 1, acc)

\* the loop "for result in parallel_results"; result.get raises
\* AttributeError when a result is not a dict
RECURSIVE ParseLoop(_, _, _)
ParseLoop(parallel_results, i, acc) ==
    IF i > Len(parallel_results) THEN acc
    ELSE LET result == parallel_results[i]
         IN  IF ~ IsDict(result) THEN [ acc EXCEPT !.raised = TRUE ]
             ELSE LET result_body == Get(result, "body", EmptyDict)
                  IN  IF "classifications" \in DOMAIN result_body
                      THEN ParseLoop(parallel_results, i + 1,
                               [ acc EXCEPT !.classification_results = << result_body >> ])
                      ELSE IF "extracted_text" \in DOMAIN result_body
                      THEN ParseLoop(parallel_results, i + 1,
                               [ acc EXCEPT !.text_results = << result_body >> ])
                      ELSE ParseLoop(parallel_results, i + 1, acc)

\* the response of the success path
AnalysisResponse(classification_results, text_results) ==
    LET text_identifiers == Get(text_results, "structured_identifiers", EmptyDict)
        enhanced_classifications ==
            merge_identifiers_with_classifications(
                Get(classification_results, "classifications", << >>), text_identifiers)
        \* classification_results.get('classifications', []) read after the merge
        classifications ==
            ClassificationsAfterMerge(
                Get(classification_results, "classifications", << >>), text_identifiers)
        contextual_inferences == infer_vehicle_context(classifications, text_results)
        overall_confidence ==
            calculate_overall_confidence(classification_results, text_results)
        classification_meta == Get(classification_results, "processing_metadata", EmptyDict)
        text_meta == Get(text_results, "processing_metadata", EmptyDict)
    IN  [ statusCode |-> 200,
          body |->
            [ analysis_complete |-> TRUE,
              timestamp |-> "utcnow",
              image_classification |->
                [ detected_items |-> enhanced_classifications,
                  raw_classifications |-> classifications,
                  detected_objects |->
                      Get(classification_results, "detected_objects", << >>) ],
              text_analysis |->
                [ extracted_text |-> Get(text_results, "extracted_text", << >>),
                  structured_identifiers |-> text_identifiers,
                  text_blocks |-> Get(text_results, "text_blocks", << >>) ],
              contextual_inferences |-> contextual_inferences,
              confidence_score |-> overall_confidence,
              processing_metadata |->
                [ total_processing_time_ms |->
                      Get(classification_meta, "processing_time_ms", 0)
                      + Get(text_meta, "processing_time_ms", 0),
                  classification_provider |-> Get(classification_meta, "api_provider", None),
                  text_provider |-> Get(text_meta, "api_provider", None),
                  image_key |->
                      IF Get(classification_results, "image_key", None) # None
                      THEN classification_results.image_key
                      ELSE Get(text_results, "image_key", None) ] ] ]

\* mutant: the branch results are taken by position, classification first
handler_by_position(event) ==
    LET parallel_results ==
            IF event.type = "list" THEN event.items
            ELSE Get(event.dict, "body", << >>)
    IN  IF Len(parallel_results) # 2
        THEN [ statusCode |-> 400,
               body |-> [ error |-> "Expected 2 parallel results" ] ]
        ELSE IF ~ IsDict(parallel_results[1]) \/ ~ IsDict(parallel_results[2])
        THEN [ statusCode |-> 500,
               body |-> [ error |-> "Result aggregation failed",
                          analysis_complete |-> FALSE ] ]
        ELSE IF "classifications" \notin DOMAIN Get(parallel_results[1], "body", EmptyDict)
                \/ "extracted_text" \notin DOMAIN Get(parallel_results[2], "body", EmptyDict)
        THEN [ statusCode |-> 400,
               body |-> [ error |->
                   "Could not parse classification and text extraction results" ] ]
        ELSE AnalysisResponse(parallel_results[1].body, parallel_results[2].body)

\* aggregate.handler.  An Optional value is << >> (None) or << v >>.
handler(event) ==
    LET parallel_results ==
            IF event.type = "list" THEN event.items
            ELSE Get(event.dict, "body", << >>)
    IN  IF Len(parallel_results) # 2
        THEN [ statusCode |-> 400,
               body |-> [ error |-> "Expected 2 parallel results" ] ]
        ELSE LET parsed == ParseLoop(parallel_results, 1,
                               [ classification_results |-> << >>,
                                 text_results |-> << >>,
                                 raised |-> FALSE ])
             IN  IF parsed.raised
                 THEN [ statusCode |-> 500,
                        body |-> [ error |-> "Result aggregation failed",
                                   analysis_complete |-> FALSE ] ]
                 ELSE IF parsed.classification_results = << >>
                         \/ parsed.text_results = << >>
                 THEN [ statusCode |-> 400,
                        body |-> [ error |->
                            "Could not parse classification and text extraction results" ] ]
                 ELSE AnalysisResponse(parsed.classification_results[1],
                                       parsed.text_results[1])

(***************************************************************************)
(* Inputs.                                                                 *)
(***************************************************************************)
\* OCR words and phrases the texts are made of
Words ==
    { <<"1","2","3","4","5","6","7">>,
      <<"P","R","I","O","R","I","T","Y"," ","M","A","I","L">>,
      <<"M","S","C","U","7","6","5","4","3","2","1">>,
      <<"A","B","C","1","2","3">>,
      <<"F","e","d","E","x">>,
      <<"M","A","E","R","S","K">>,
      <<"A","B","C","\n","1","2","3">>,
      <<"U","P","S","X"," ","7","6","5","4","3","2"," ","1">> }

RECURSIVE Join(_)
Join(ws) ==
    IF ws = << >> THEN << >>
    ELSE IF Len(ws) = 1 THEN ws[1]
    ELSE ws[1] \o << " " >> \o Join(Tail(ws))

Texts == { Join(ws) : ws \in UNION { [ 1..n -> Words ] : n \in 0..MaxWords } }

Classification(category, subcategory, hundredths) ==
    [ category |-> category, subcategory |-> subcategory,
      confidence |-> Frac(hundredths, 100) ]

\* Classifications a vision provider may report.  The confidences are such
\* that the double arithmetic of the source and the exact arithmetic here
\* agree on every comparison (threshold and sort key) the engine makes on
\* lists drawn from this pool.
ClassificationPool ==
    { Classification("vehicle", STR_truck, 85),
      Classification("vehicle", <<"V","a","n">>, 70),
      Classification("container", <<"c","o","n","t","a","i","n","e","r">>, 95),
      Classification("infrastructure", <<"w","a","r","e","h","o","u","s","e">>, 85),
      Classification("vehicle", <<"c","a","r">>, 35) }

ClassificationLists ==
    UNION { [ 1..n -> ClassificationPool ] : n \in 0..MaxCls }

\* inference lists handed to determine_entities by a caller other than
\* the ranker
GivenInferences ==
    { << [ vehicle_type |-> "postal_delivery", confidence |-> Frac(30, 100),
           structured_identifiers |-> << >> ] >>,
      << [ vehicle_type |-> "tow_truck", confidence |-> Frac(50, 100),
           structured_identifiers |-> << >> ] >>,
      << [ vehicle_type |-> "shipping_container", confidence |-> Frac(90, 100),
           structured_identifiers |-> << >> ],
         [ vehicle_type |-> "commercial_delivery", confidence |-> Frac(20, 100),
           structured_identifiers |-> << >> ],
         [ vehicle_type |-> "emergency_vehicle", confidence |-> Frac(50, 100),
           structured_identifiers |-> << >> ] >> }

(***************************************************************************)
(* State.                                                                  *)
(***************************************************************************)
VARIABLES
    classifications,        \* argument: list of classification dicts
    text_analysis,          \* argument: dict with extracted_text, text_blocks
    op,                     \* the operation that produced the results below
    pattern,                \* index in VEHICLE_PATTERNS of the scored pattern
    match_score,            \* result of calculate_pattern_match_score
    contextual_inferences,  \* result of infer_vehicle_context / argument
    entities,               \* result of determine_entities
    event,                  \* argument of the handler that ran
    response,               \* result of the handler or backend call that ran
    execution,              \* the execution of the image-analysis pipeline
    environ,                \* os.environ of the Lambda function
    s3,                     \* the keys get_object can read in the bucket
    calls,                  \* the calls a handler made to S3 and to its backend
    backend,                \* the MockCVBackend instance
    api                     \* api_handler invocations and what they share

vars == << classifications, text_analysis, op, pattern, match_score,
           contextual_inferences, entities, event, response, execution,
           environ, s3, calls, backend, api >>

\* the state of the branch handlers and of api_handler
serviceVars == << environ, s3, calls, backend, api >>

NoResponse == [ statusCode |-> 0, body |-> EmptyDict ]

\* no execution of the state machine has been started
NotStarted ==
    [ status |-> "NOT_STARTED", current |-> None, input |-> EmptyDict,
      branches |-> << >>, outputs |-> << >>,
      started |-> << >>, completed |-> << >> ]

(***************************************************************************)
(* MockCVBackend.__init__: the data of a new instance.  None in the place  *)
(* of a string is the sequence << None >>.                                 *)
(***************************************************************************)
NoneStr == << None >>

MOCK_CLASSIFICATIONS ==
    << [ category |-> "vehicle", subcategory |-> STR_truck,
         confidence |-> Frac(92, 100), brand |-> <<"U","P","S">>,
         bounding_box |-> [ x |-> 100, y |-> 50, width |-> 300, height |-> 200 ] ],
       [ category |-> "vehicle",
         subcategory |-> <<"d","e","l","i","v","e","r","y","_","t","r","u","c","k">>,
         confidence |-> Frac(87, 100), brand |-> <<"F","e","d","E","x">>,
         bounding_box |-> [ x |-> 80, y |-> 60, width |-> 320, height |-> 180 ] ],
       [ category |-> "container",
         subcategory |-> <<"s","h","i","p","p","i","n","g","_","c","o","n","t","a","i","n","e","r">>,
         confidence |-> Frac(95, 100), brand |-> NoneStr,
         bounding_box |-> [ x |-> 0, y |-> 100, width |-> 400, height |-> 150 ] ],
       [ category |-> "infrastructure",
         subcategory |-> <<"w","a","r","e","h","o","u","s","e">>,
         confidence |-> Frac(78, 100), brand |-> NoneStr,
         bounding_box |-> [ x |-> 200, y |-> 0, width |-> 600, height |-> 300 ] ] >>

MOCK_TEXT_SAMPLES ==
    << <<"U","P","S"," ","1","Z","9","9","9","A","A","1","2","3","4","5","6","7","8","9","0">>,
       <<"F","L","E","E","T"," ","1","2","3","4","5">>,
       <<"C","O","N","T","A","I","N","E","R"," ","M","S","C","U","7","6","5","4","3","2","1">>,
       <<"L","I","C","E","N","S","E"," ","A","B","C","1","2","3">>,
       <<"V","E","H","I","C","L","E"," ","I","D"," ","V","H","-","9","8","7","6">>,
       <<"F","E","D","E","X"," ","7","7","7","7"," ","8","8","8","8"," ","9","9","9","9">>,
       <<"T","R","U","C","K"," ","#","T","-","4","5","6","7">> >>

\* MockCVBackend()
NewMockCVBackend ==
    [ mock_classifications |-> MOCK_CLASSIFICATIONS,
      mock_text_samples |-> MOCK_TEXT_SAMPLES ]

\* no request has reached api_handler
ApiIdle == [ clock |-> 0, names |-> << >>, requests |-> << >> ]

\* no handler and no backend has run
ServicesIdle ==
    /\ environ = EmptyDict
    /\ s3 = { }
    /\ calls = << >>
    /\ backend = NewMockCVBackend
    /\ api = ApiIdle

Init ==
    /\ ServicesIdle
    /\ classifications \in ClassificationLists
    /\ \E text \in Texts :
           text_analysis = [ extracted_text |-> text, text_blocks |-> << >> ]
    /\ op = "init"
    /\ pattern = 0
    /\ match_score = 0
    /\ contextual_inferences = << >>
    /\ entities = << >>
    /\ event = ListEvent(<< >>)
    /\ response = NoResponse
    /\ execution = NotStarted

CalculatePatternMatchScore(k) ==
    /\ UNCHANGED serviceVars
    /\ op = "init"
    /\ op' = "score"
    /\ pattern' = k
    /\ match_score' = calculate_pattern_match_score(
                          VEHICLE_PATTERNS[k], classifications,
                          text_analysis.extracted_text, text_analysis.text_blocks)
    /\ UNCHANGED << classifications, text_analysis, contextual_inferences,
                    entities, event, response, execution >>

InferVehicleContext ==
    /\ UNCHANGED serviceVars
    /\ op = "init"
    /\ op' = "infer"
    /\ contextual_inferences' = infer_vehicle_context(classifications, text_analysis)
    /\ UNCHANGED << classifications, text_analysis, pattern, match_score,
                    entities, event, response, execution >>

\* the resolver applied to the ranker's output
DetermineEntities ==
    /\ UNCHANGED serviceVars
    /\ op = "infer"
    /\ op' = "entities"
    /\ entities' = determine_entities(classifications, text_analysis,
                                      contextual_inferences)
    /\ UNCHANGED << classifications, text_analysis, pattern, match_score,
                    contextual_inferences, event, response, execution >>

\* the resolver applied to inferences supplied by the caller
DetermineEntitiesGiven ==
    /\ UNCHANGED serviceVars
    /\ op = "init"
    /\ \E given \in GivenInferences :
           /\ contextual_inferences' = given
           /\ entities' = determine_entities(classifications, text_analysis, given)
    /\ op' = "entities"
    /\ UNCHANGED << classifications, text_analysis, pattern, match_score,
                    event, response, execution >>

Next ==
    \/ \E k \in 1..Len(VEHICLE_PATTERNS) : CalculatePatternMatchScore(k)
    \/ InferVehicleContext
    \/ DetermineEntities
    \/ DetermineEntitiesGiven

Spec == Init /\ [][Next]_vars

(***************************************************************************)
(* The score at the ends of its range: classifications of confidence 1.0   *)
(* and texts that match up to every text regex of a pattern.               *)
(***************************************************************************)
ScoreClassificationPool ==
    { Classification("vehicle", STR_truck, 100),
      Classification("vehicle", <<"V","a","n">>, 60),
      Classification("container", <<"c","o","n","t","a","i","n","e","r">>, 100),
      Classification("vehicle", <<"c","a","r">>, 10) }

ScoreClassificationLists ==
    UNION { [ 1..n -> ScoreClassificationPool ] : n \in 0..MaxCls }

ScoreTexts ==
    { << >>,
      <<"F","e","d","E","x">>,
      <<"u","s","p","s",".","c","o","m"," ","P","r","i","o","r","i","t","y"," ","e","x","p","r","e","s","s"," ","m","a","i","l"," ","1","2","3","4","5","6","7">>,
      <<"f","e","d","e","x"," ","U","P","S"," ","a","m","a","z","o","n"," ","d","h","l"," ","1","2","3","4","-","5","6","7","8"," ","d","e","l","i","v","e","r","y">>,
      <<"M","a","e","r","s","k"," ","e","v","e","r","g","r","e","e","n"," ","c","o","s","c","o"," ","M","S","C">>,
      <<"p","o","l","i","c","e"," ","f","i","r","e"," ","a","m","b","u","l","a","n","c","e"," ","e","m","s"," ","s","h","e","r","i","f","f"," ","9","1","1">> }

InitScore ==
    /\ ServicesIdle
    /\ classifications \in ScoreClassificationLists
    /\ \E text \in ScoreTexts :
           text_analysis = [ extracted_text |-> text, text_blocks |-> << >> ]
    /\ op = "init"
    /\ pattern = 0
    /\ match_score = 0
    /\ contextual_inferences = << >>
    /\ entities = << >>
    /\ event = ListEvent(<< >>)
    /\ response = NoResponse
    /\ execution = NotStarted

NextScore ==
    \/ \E k \in 1..Len(VEHICLE_PATTERNS) : CalculatePatternMatchScore(k)
    \/ InferVehicleContext

SpecScore == InitScore /\ [][NextScore]_vars

(***************************************************************************)
(* The aggregator: its event is what the Parallel state of the pipeline,   *)
(* or a direct invocation, hands to aggregate.handler.                     *)
(***************************************************************************)
\* confidence_scores of a backend result: {cls['subcategory']: cls['confidence']}
\* (a later classification of the same subcategory overwrites an earlier one)
ConfidenceScores(cls) ==
    [ s \in { cls[i].subcategory : i \in 1..Len(cls) } |->
        cls[CHOOSE i \in 1..Len(cls) :
                /\ cls[i].subcategory = s
                /\ \A j \in (i + 1)..Len(cls) : cls[j].subcategory # s].confidence ]

\* the 200 result of classify.handler around a backend result
ClassifyResult(cls) ==
    [ statusCode |-> 200,
      body |-> [ image_key |-> "processed/image.jpg",
                 classifications |-> cls,
                 detected_objects |->
                     [ i \in 1..Len(cls) |->
                         [ name |-> cls[i].subcategory,
                           confidence |-> cls[i].confidence ] ],
                 confidence_scores |-> ConfidenceScores(cls),
                 processing_metadata |->
                     [ api_provider |-> "mock_backend",
                       model_version |-> "mock-v1.0",
                       processing_time_ms |-> 150 ] ] ]

\* the 200 result of extract_text.handler
TextResult(text, identifiers, text_confidence) ==
    [ statusCode |-> 200,
      body |-> [ image_key |-> "processed/image.jpg",
                 extracted_text |-> text,
                 text_blocks |->
                     IF text = << >> THEN << >>
                     ELSE << [ text |-> text, confidence |-> text_confidence ] >>,
                 structured_identifiers |-> identifiers,
                 processing_metadata |->
                     [ api_provider |-> "mock_backend",
                       text_confidence |-> text_confidence,
                       processing_time_ms |-> 120 ] ] ]

\* a branch result whose body lacks a key (a caller other than the pipeline's
\* branch handlers may leave it out)
WithoutKey(result, key) ==
    [ result EXCEPT !.body = [ k \in DOMAIN result.body \ { key } |-> result.body[k] ] ]

\* the 404 result of either branch handler
ErrorResult ==
    [ statusCode |-> 404,
      body |-> [ error |-> "Failed to download image from S3" ] ]

\* a result without a body
NoBodyResult == [ statusCode |-> 200 ]

\* branch results the event is made of
ResultPool ==
    { ClassifyResult(<< >>),
      ClassifyResult(<< Classification("container", <<"c","o","n","t","a","i","n","e","r">>, 95),
                        Classification("vehicle", STR_truck, 85) >>),
      TextResult(<< >>,
                 [ container_ids |-> << >>, fleet_numbers |-> << >>,
                   license_plates |-> << >>, other_codes |-> << >> ],
                 0),
      TextResult(<<"M","S","C","U","7","6","5","4","3","2","1"," ","A","B","C","1","2","3">>,
                 [ container_ids |-> << <<"M","S","C","U","7","6","5","4","3","2","1">> >>,
                   fleet_numbers |-> << <<"A","B","C","1","2","3">> >>,
                   license_plates |-> << <<"A","B","C","1","2","3">>, <<"A","B","C","1","2","3">> >>,
                   other_codes |-> << >> ],
                 Frac(95, 100)),
      ClassifyResult(<< Classification("vehicle", <<"P","i","c","k","u","p"," ","T","r","u","c","k">>, 70),
                        Classification("vehicle", STR_van, 95),
                        Classification("infrastructure", <<"w","a","r","e","h","o","u","s","e">>, 85) >>),
      WithoutKey(ClassifyResult(<< Classification("vehicle", STR_truck, 85) >>),
                 "confidence_scores"),
      WithoutKey(WithoutKey(TextResult(<<"F","e","d","E","x">>, EmptyDict, Frac(95, 100)),
                            "processing_metadata"),
                 "structured_identifiers"),
      ErrorResult,
      NoBodyResult,
      JsonNull }

ResultLists == UNION { [ 1..n -> ResultPool ] : n \in 0..MaxResults }

Events ==
    { ListEvent(items) : items \in ResultLists }
    \cup { DictEvent([ body |-> items ]) : items \in ResultLists }
    \cup { DictEvent(EmptyDict) }

InitAggregate ==
    /\ ServicesIdle
    /\ classifications = << >>
    /\ text_analysis = [ extracted_text |-> << >>, text_blocks |-> << >> ]
    /\ op = "init"
    /\ pattern = 0
    /\ match_score = 0
    /\ contextual_inferences = << >>
    /\ entities = << >>
    /\ event \in Events
    /\ response = NoResponse
    /\ execution = NotStarted

AggregateHandler ==
    /\ UNCHANGED serviceVars
    /\ op = "init"
    /\ op' = "aggregate"
    /\ response' = handler(event)
    /\ UNCHANGED << classifications, text_analysis, pattern, match_score,
                    contextual_inferences, entities, event, execution >>

\* the aggregator, and the engine functions on the empty classification
\* list and the empty text of InitAggregate
NextAggregate ==
    \/ AggregateHandler
    \/ InferVehicleContext
    \/ DetermineEntities

SpecAggregate == InitAggregate /\ [][NextAggregate]_vars

(***************************************************************************)
(* MockCVBackend.classify_image.  The classifications it returns are the   *)
(* dicts the instance stores: the new confidence stays in the instance.    *)
(***************************************************************************)
\* random.uniform(-0.1, 0.1): the draws of the model
Jitters == { 0 - Frac(10, 100), Frac(10, 100) }

\* random.sample(self.mock_classifications, random.randint(1, 3)), as the
\* positions drawn, in the order drawn
Selections ==
    { sel \in UNION { [ 1..n -> 1..Len(MOCK_CLASSIFICATIONS) ] : n \in 1..3 } :
        \A i, j \in DOMAIN sel : i # j => sel[i] # sel[j] }

\* mutant: the new confidence is not clamped
ClampNone(x) == x

\* max(0.5, min(1.0, x))
Clamp(x) == Max(Frac(50, 100), Min(Unit, x))

classify_image(self, selected, jitter) ==
    LET adjusted(j) ==
            [ self.mock_classifications[selected[j]] EXCEPT
                !.confidence = Clamp(@ + jitter[j]) ]
        selected_classifications == [ j \in 1..Len(selected) |-> adjusted(j) ]
    IN  [ self |->
            [ self EXCEPT !.mock_classifications =
                [ i \in 1..Len(self.mock_classifications) |->
                    IF InList(i, selected)
                    THEN adjusted(CHOOSE j \in 1..Len(selected) : selected[j] = i)
                    ELSE self.mock_classifications[i] ] ],
          result |->
            [ classifications |-> selected_classifications,
              detected_objects |->
                  [ j \in 1..Len(selected) |->
                      [ name |-> selected_classifications[j].subcategory,
                        confidence |-> selected_classifications[j].confidence,
                        bounding_box |-> selected_classifications[j].bounding_box ] ],
              confidence_scores |-> ConfidenceScores(selected_classifications),
              processing_metadata |->
                  [ api_provider |-> "mock_backend",
                    model_version |-> "mock-v1.0",
                    processing_time_ms |-> 150 ] ] ]

\* an instance that two earlier calls have left with a lower confidence of
\* the truck and of the warehouse and a higher one of the container
UsedMockCVBackend ==
    LET selected == << 1, 3, 4 >>
        jitter == << 0 - Frac(10, 100), Frac(10, 100), 0 - Frac(10, 100) >>
    IN  classify_image(classify_image(NewMockCVBackend, selected, jitter).self,
                       selected, jitter).self

InitMock ==
    /\ classifications = << >>
    /\ text_analysis = [ extracted_text |-> << >>, text_blocks |-> << >> ]
    /\ op = "init"
    /\ pattern = 0
    /\ match_score = 0
    /\ contextual_inferences = << >>
    /\ entities = << >>
    /\ event = ListEvent(<< >>)
    /\ response = NoResponse
    /\ execution = NotStarted
    /\ environ = EmptyDict
    /\ s3 = { }
    /\ calls = << >>
    /\ backend \in { NewMockCVBackend, UsedMockCVBackend }
    /\ api = ApiIdle

\* one more call of classify_image on the instance
MockClassifyImage ==
    /\ Len(calls) < MaxCalls
    /\ op' = "classify_image"
    /\ \E selected \in Selections :
       \E jitter \in [ 1..Len(selected) -> Jitters ] :
           LET r == classify_image(backend, selected, jitter)
           IN  /\ backend' = r.self
               /\ response' = r.result
               /\ calls' = Append(calls, [ fn |-> "classify_image" ])
    /\ UNCHANGED << classifications, text_analysis, pattern, match_score,
                    contextual_inferences, entities, event, execution,
                    environ, s3, api >>

NextMock ==
    \/ MockClassifyImage

SpecMock == InitMock /\ [][NextMock]_vars

(***************************************************************************)
(* The backend factory (cv_backends/factory.py) and the branch handlers.   *)
(* os.environ is a function from the names that are set to their values.   *)
(***************************************************************************)
STR_mock == <<"m","o","c","k">>

STR_test == <<"t","e","s","t">>

STR_gcp == <<"g","c","p">>

STR_gcp_vision == <<"g","c","p","_","v","i","s","i","o","n">>

STR_gcp_vision_rest == <<"g","c","p","_","v","i","s","i","o","n","_","r","e","s","t">>

STR_gcp_automl == <<"g","c","p","_","a","u","t","o","m","l">>

STR_gcp_document_ai == <<"g","c","p","_","d","o","c","u","m","e","n","t","_","a","i">>

\* raise NotImplementedError(...) in the place of a backend
NotImplementedError == "NotImplementedError"

get_cv_backend(env) ==
    LET backend_type == Lower(Get(env, "CV_BACKEND", STR_mock))
    IN  IF backend_type \in { STR_mock, STR_test } THEN "MockCVBackend"
        ELSE IF backend_type = STR_gcp THEN "GCPVisionBackend"
        ELSE "MockCVBackend"

get_classification_backend(env) ==
    LET backend_type ==
            Lower(Get(env, "CLASSIFICATION_BACKEND", Get(env, "CV_BACKEND", STR_mock)))
    IN  IF backend_type \in { STR_mock, STR_test } THEN "MockCVBackend"
        ELSE IF backend_type \in { STR_gcp, STR_gcp_vision } THEN "GCPVisionBackend"
        ELSE IF backend_type = STR_gcp_vision_rest THEN "GCPVisionRestBackend"
        ELSE IF backend_type = STR_gcp_automl THEN NotImplementedError
        ELSE "MockCVBackend"

get_text_extraction_backend(env) ==
    LET backend_type ==
            Lower(Get(env, "TEXT_EXTRACTION_BACKEND", Get(env, "CV_BACKEND", STR_mock)))
    IN  IF backend_type \in { STR_mock, STR_test } THEN "MockCVBackend"
        ELSE IF backend_type \in { STR_gcp, STR_gcp_vision } THEN "GCPVisionBackend"
        ELSE IF backend_type = STR_gcp_vision_rest THEN "GCPVisionRestBackend"
        ELSE IF backend_type = STR_gcp_document_ai THEN NotImplementedError
        ELSE "MockCVBackend"

\* whether classify_image of the class declares the parameter image_dimensions
ACCEPTS_IMAGE_DIMENSIONS ==
    [ MockCVBackend |-> FALSE,
      GCPVisionBackend |-> FALSE,
      GCPVisionRestBackend |-> TRUE ]

\* str.replace(old, new), old not empty
RECURSIVE Replace(_, _, _)
Replace(s, old, new) ==
    IF Len(s) < Len(old) THEN s
    ELSE IF SubSeq(s, 1, Len(old)) = old
    THEN new \o Replace(SubSeq(s, Len(old) + 1, Len(s)), old, new)
    ELSE << Head(s) >> \o Replace(Tail(s), old, new)

\* "not x" for a string or None
Falsy(x) == x = << >> \/ x = NoneStr

STR_processed_ == <<"p","r","o","c","e","s","s","e","d","/">>

\* the backend call raised
Raised == [ raised |-> TRUE ]

Failure(statusCode, error) == [ statusCode |-> statusCode, body |-> [ error |-> error ] ]

GetObject(key) == [ fn |-> "get_object", Key |-> key ]

\* mutant: no second read when the processed image cannot be read
DownloadWithoutFallback(processed_image_key, original_key, objects) ==
    [ reads |-> << GetObject(processed_image_key) >>,
      ok |-> processed_image_key \in objects ]

\* the nested try blocks around get_object: the reads made, in order, and
\* whether image_data was obtained
Download(processed_image_key, original_key, objects) ==
    IF processed_image_key \in objects
    THEN [ reads |-> << GetObject(processed_image_key) >>, ok |-> TRUE ]
    ELSE [ reads |-> << GetObject(processed_image_key), GetObject(original_key) >>,
           ok |-> original_key \in objects ]

\* classify.handler.  objects: the keys get_object can read; constructs:
\* whether the GCP class can be imported and constructed; outcome: what
\* classify_image returns (or Raised) when the call reaches its body.
\* The result is the response and the calls made to S3 and to the backend.
classify_handler(ev, env, objects, constructs, outcome) ==
    LET processed_image_key == Get(ev, "processed_image_key", NoneStr)
        bucket_name == Get(ev, "bucket_name", NoneStr)
        image_dimensions == Get(ev, "image_dimensions", JsonNull)
        cv_backend == get_classification_backend(env)
        original_key ==
            Get(ev, "original_image_key",
                Replace(processed_image_key, STR_processed_, << >>))
        download == Download(processed_image_key, original_key, objects)
        call == [ fn |-> "classify_image", backend |-> cv_backend,
                  image_dimensions |-> image_dimensions ]
    IN  IF Falsy(processed_image_key) \/ Falsy(bucket_name)
        THEN [ response |->
                   Failure(400, "Missing required parameters: processed_image_key, bucket_name"),
               calls |-> << >> ]
        ELSE IF cv_backend = NotImplementedError
                \/ (cv_backend # "MockCVBackend" /\ ~ constructs)
        THEN [ response |-> Failure(500, "Classification failed"), calls |-> << >> ]
        ELSE IF ~ download.ok
        THEN [ response |-> Failure(404, "Failed to download image from S3"),
               calls |-> download.reads ]
        ELSE IF ~ ACCEPTS_IMAGE_DIMENSIONS[cv_backend] \/ outcome = Raised
        THEN [ response |-> Failure(500, "Classification failed"),
               calls |-> Append(download.reads, call) ]
        ELSE [ response |->
                   [ statusCode |-> 200,
                     body |-> [ image_key |-> processed_image_key,
                                classifications |-> Get(outcome, "classifications", << >>),
                                detected_objects |-> Get(outcome, "detected_objects", << >>),
                                confidence_scores |-> Get(outcome, "confidence_scores", EmptyDict),
                                processing_metadata |-> Get(outcome, "processing_metadata", EmptyDict) ] ],
               calls |-> Append(download.reads, call) ]

(***************************************************************************)
(* extract_text.py: the identifier helpers of the handler (compiled with   *)
(* re.IGNORECASE, applied to the text as extracted) and the handler.       *)
(***************************************************************************)
\* hi of the quantifiers * and +
Unbounded == 1000

HANDLER_CONTAINER_PATTERN ==
    IgnoreCase(Re("\\b[A-Z]{4}\\s?[0-9]{6,7}\\s?[0-9]\\b", TRUE,
                  <<Item(UpperSet, 4, 4), Item(Whitespace, 0, 1), Item(Digits, 6, 7),
                    Item(Whitespace, 0, 1), Item(Digits, 1, 1)>>, TRUE))

\* the alternatives of (?:FLEET|VEHICLE|UNIT), in order
FLEET_KEYWORDS == << <<"F","L","E","E","T">>, <<"V","E","H","I","C","L","E">>, <<"U","N","I","T">> >>

\* r'\b(?:FLEET|VEHICLE|UNIT)\s*[#:]?\s*', one regex per alternative: what
\* precedes the group
FLEET_KEYWORD_PREFIXES ==
    [ k \in 1..Len(FLEET_KEYWORDS) |->
        IgnoreCase(Re("\\b(?:FLEET|VEHICLE|UNIT)\\s*[#:]?\\s*", TRUE,
                      Lit(FLEET_KEYWORDS[k])
                      \o <<Item(Whitespace, 0, Unbounded), Item({"#", ":"}, 0, 1),
                           Item(Whitespace, 0, Unbounded)>>, FALSE)) ]

\* r'\b(?:FLEET|VEHICLE|UNIT)\s*[#:]?\s*([A-Z0-9]+)\b', one regex per
\* alternative
FLEET_KEYWORD_PATTERNS ==
    [ k \in 1..Len(FLEET_KEYWORDS) |->
        IgnoreCase(Re("\\b(?:FLEET|VEHICLE|UNIT)\\s*[#:]?\\s*([A-Z0-9]+)\\b", TRUE,
                      Lit(FLEET_KEYWORDS[k])
                      \o <<Item(Whitespace, 0, Unbounded), Item({"#", ":"}, 0, 1),
                           Item(Whitespace, 0, Unbounded),
                           Item(UpperAlnum, 1, Unbounded)>>, TRUE)) ]

GENERIC_FLEET_PATTERN ==
    IgnoreCase(Re("\\b[A-Z]{2,4}\\s*[0-9]{3,6}\\b", TRUE,
                  <<Item(UpperSet, 2, 4), Item(Whitespace, 0, Unbounded),
                    Item(Digits, 3, 6)>>, TRUE))

HANDLER_PLATE_PATTERNS ==
    << IgnoreCase(Re("\\b[A-Z0-9]{2,3}\\s*[A-Z0-9]{3,4}\\b", TRUE,
                     <<Item(UpperAlnum, 2, 3), Item(Whitespace, 0, Unbounded),
                       Item(UpperAlnum, 3, 4)>>, TRUE)),
       IgnoreCase(Re("\\b[A-Z]{3}\\s*[0-9]{3,4}\\b", TRUE,
                     <<Item(UpperSet, 3, 3), Item(Whitespace, 0, Unbounded),
                       Item(Digits, 3, 4)>>, TRUE)),
       IgnoreCase(Re("\\b[0-9]{3}\\s*[A-Z]{3}\\b", TRUE,
                     <<Item(Digits, 3, 3), Item(Whitespace, 0, Unbounded),
                       Item(UpperSet, 3, 3)>>, TRUE)) >>

\* extract_container_ids of extract_text.py
handler_extract_container_ids(text) == FindAll(HANDLER_CONTAINER_PATTERN, text)

\* the alternative of the keyword pattern that matches at pos from k on, 0
\* when none
RECURSIVE KeywordAt(_, _, _)
KeywordAt(text, pos, k) ==
    IF k > Len(FLEET_KEYWORDS) THEN 0
    ELSE IF MatchAt(FLEET_KEYWORD_PATTERNS[k], text, pos) # 0 THEN k
    ELSE KeywordAt(text, pos, k + 1)

\* re.findall of the keyword pattern: the group of each match
RECURSIVE FindAllKeywordFrom(_, _)
FindAllKeywordFrom(text, pos) ==
    IF pos > Len(text) THEN << >>
    ELSE LET k == KeywordAt(text, pos, 1)
         IN  IF k = 0 THEN FindAllKeywordFrom(text, pos + 1)
             ELSE LET e == MatchAt(FLEET_KEYWORD_PATTERNS[k], text, pos)
                      g == MatchAt(FLEET_KEYWORD_PREFIXES[k], text, pos)
                  IN  << SubSeq(text, g, e - 1) >> \o FindAllKeywordFrom(text, e)

extract_fleet_numbers(text) ==
    FindAllKeywordFrom(text, 1) \o FindAll(GENERIC_FLEET_PATTERN, text)

RECURSIVE HandlerPlatesFrom(_, _)
HandlerPlatesFrom(k, text) ==
    IF k > Len(HANDLER_PLATE_PATTERNS) THEN << >>
    ELSE FindAll(HANDLER_PLATE_PATTERNS[k], text) \o HandlerPlatesFrom(k + 1, text)

extract_license_plates(text) == HandlerPlatesFrom(1, text)

\* " ".join(texts)
RECURSIVE JoinWithSpace(_)
JoinWithSpace(texts) ==
    IF texts = << >> THEN << >>
    ELSE IF Len(texts) = 1 THEN texts[1]
    ELSE texts[1] \o << " " >> \o JoinWithSpace(Tail(texts))

\* random.sample(self.mock_text_samples, random.randint(1, 4)), as the
\* positions drawn, in the order drawn
TextSelections ==
    { sel \in UNION { [ 1..n -> 1..Len(MOCK_TEXT_SAMPLES) ] : n \in 1..MaxTexts } :
        \A i, j \in DOMAIN sel : i # j => sel[i] # sel[j] }

\* random.uniform(0.85, 0.98) for each of n blocks: the draws of the model
BlockConfidences(n) ==
    { [ i \in 1..n |-> Frac(85, 100) ],
      [ i \in 1..n |-> IF i % 2 = 1 THEN Frac(98, 100) ELSE Frac(85, 100) ] }

RECURSIVE SumSeq(_)
SumSeq(xs) == IF xs = << >> THEN 0 ELSE Head(xs) + SumSeq(Tail(xs))

\* MockCVBackend.extract_text
extract_text(self, selected, confidence) ==
    LET selected_texts == [ i \in 1..Len(selected) |-> self.mock_text_samples[selected[i]] ]
        text_blocks ==
            [ i \in 1..Len(selected) |->
                [ text |-> selected_texts[i],
                  confidence |-> confidence[i],
                  bounding_box |-> [ x |-> 50, y |-> 50 + ((i - 1) * 40),
                                     width |-> Len(selected_texts[i]) * 8,
                                     height |-> 25 ] ] ]
    IN  [ extracted_text |-> JoinWithSpace(selected_texts),
          text_blocks |-> text_blocks,
          processing_metadata |->
              [ api_provider |-> "mock_backend",
                text_confidence |->
                    IF text_blocks # << >>
                    THEN SumSeq(confidence) \div Len(text_blocks)
                    ELSE 0,
                processing_time_ms |-> 120 ] ]

\* what extract_text of a GCP backend returns for a text it has read
ProviderText(api_provider, text) ==
    [ extracted_text |-> text,
      text_blocks |->
          IF text = << >> THEN << >>
          ELSE << [ text |-> text, confidence |-> Frac(90, 100),
                    bounding_box |-> [ x |-> 10, y |-> 10, width |-> 100, height |-> 20 ] ] >>,
      processing_metadata |->
          [ api_provider |-> api_provider,
            text_confidence |-> IF text = << >> THEN 0 ELSE Frac(90, 100),
            processing_time_ms |-> 0 ] ]

API_PROVIDER ==
    [ MockCVBackend |-> "mock_backend",
      GCPVisionBackend |-> "gcp_vision",
      GCPVisionRestBackend |-> "gcp_vision_rest" ]

\* what extract_text of an instance of the class may return
BackendTextOutcomes(class) ==
    IF class = "MockCVBackend"
    THEN UNION { { extract_text(NewMockCVBackend, selected, confidence) :
                     confidence \in BlockConfidences(Len(selected)) } :
                   selected \in TextSelections }
    ELSE { Raised }
         \cup { ProviderText(API_PROVIDER[class], text) :
                  text \in { << >>, <<"M","S","C","U","7","6","5","4","3","2","1">> } }

\* line 73 of extract_text.py: cv_backend = get_cv_backend()
HandlerBackend(env) == get_cv_backend(env)

\* extract_text.handler; objects, constructs and outcome as for
\* classify_handler
extract_text_handler(ev, env, objects, constructs, outcome) ==
    LET processed_image_key == Get(ev, "processed_image_key", NoneStr)
        bucket_name == Get(ev, "bucket_name", NoneStr)
        cv_backend == HandlerBackend(env)
        call == [ fn |-> "extract_text", backend |-> cv_backend ]
        extracted_text == Get(outcome, "extracted_text", << >>)
    IN  IF Falsy(processed_image_key) \/ Falsy(bucket_name)
        THEN [ response |->
                   Failure(400, "Missing required parameters: processed_image_key, bucket_name"),
               calls |-> << >> ]
        ELSE IF cv_backend = NotImplementedError
                \/ (cv_backend # "MockCVBackend" /\ ~ constructs)
        THEN [ response |-> Failure(500, "Text extraction failed"), calls |-> << >> ]
        ELSE IF processed_image_key \notin objects
        THEN [ response |-> Failure(404, "Failed to download image from S3"),
               calls |-> << GetObject(processed_image_key) >> ]
        ELSE IF outcome = Raised
        THEN [ response |-> Failure(500, "Text extraction failed"),
               calls |-> << GetObject(processed_image_key), call >> ]
        ELSE [ response |->
                   [ statusCode |-> 200,
                     body |-> [ image_key |-> processed_image_key,
                                extracted_text |-> extracted_text,
                                text_blocks |-> Get(outcome, "text_blocks", << >>),
                                structured_identifiers |->
                                    [ container_ids |-> handler_extract_container_ids(extracted_text),
                                      fleet_numbers |-> extract_fleet_numbers(extracted_text),
                                      license_plates |-> extract_license_plates(extracted_text),
                                      other_codes |-> << >> ],
                                processing_metadata |->
                                    Get(outcome, "processing_metadata", EmptyDict) ] ],
               calls |-> << GetObject(processed_image_key), call >> ]

\* keys of the bucket: the processed image, the image it was made from,
\* and another original
KEY_processed == <<"p","r","o","c","e","s","s","e","d","/","a">>

KEY_a == <<"a">>

KEY_other == <<"o">>

Keys == { KEY_processed, KEY_a, KEY_other }

\* the values a field of the event may have, absent included
Absent == << "absent" >>

\* events of the branch handlers: what the Parallel state resolves from
\* the preprocessor's body, and what a direct invocation may leave out
BranchEvents ==
    { [ k \in { f \in { "processed_image_key", "bucket_name",
                        "original_image_key", "image_dimensions" } :
                  \/ f = "processed_image_key" /\ p # Absent
                  \/ f = "bucket_name" /\ b # Absent
                  \/ f = "original_image_key" /\ o # Absent
                  \/ f = "image_dimensions" /\ d } |->
          CASE k = "processed_image_key" -> p
            [] k = "bucket_name" -> b
            [] k = "original_image_key" -> o
            [] k = "image_dimensions" -> [ width |-> 800, height |-> 600 ] ] :
        p \in { Absent, << >>, KEY_processed, KEY_a },
        b \in { Absent, <<"b">> },
        o \in { Absent, NoneStr, KEY_other },
        d \in BOOLEAN }

\* the environment __main__.py gives the classifier and the text extractor
CLASSIFIER_ENVIRONMENT ==
    [ CV_BACKEND |-> STR_mock, CLASSIFICATION_BACKEND |-> STR_gcp_vision_rest ]

TEXT_EXTRACTOR_ENVIRONMENT ==
    [ CV_BACKEND |-> STR_mock, TEXT_EXTRACTION_BACKEND |-> STR_gcp_vision_rest ]

BackendTypes ==
    { STR_mock, <<"M","o","c","k">>, STR_test, STR_gcp, STR_gcp_vision,
      STR_gcp_vision_rest, STR_gcp_automl, STR_gcp_document_ai, <<"a","w","s">> }

Environments ==
    { EmptyDict, CLASSIFIER_ENVIRONMENT, TEXT_EXTRACTOR_ENVIRONMENT }
    \cup { [ CV_BACKEND |-> v ] : v \in BackendTypes }
    \cup { [ CV_BACKEND |-> STR_gcp, CLASSIFICATION_BACKEND |-> v ] : v \in BackendTypes }
    \cup { [ CV_BACKEND |-> STR_gcp, TEXT_EXTRACTION_BACKEND |-> v ] : v \in BackendTypes }

\* what classify_image of a provider may return
ClassifyImageOutcomes ==
    { Raised }
    \cup { [ k \in DOMAIN ClassifyResult(cls).body \ { "image_key" } |->
               ClassifyResult(cls).body[k] ] :
             cls \in { << >>, << Classification("vehicle", STR_truck, 85) >> } }

InitClassify ==
    /\ classifications = << >>
    /\ text_analysis = [ extracted_text |-> << >>, text_blocks |-> << >> ]
    /\ op = "init"
    /\ pattern = 0
    /\ match_score = 0
    /\ contextual_inferences = << >>
    /\ entities = << >>
    /\ event \in BranchEvents
    /\ response = NoResponse
    /\ execution = NotStarted
    /\ environ \in Environments
    /\ s3 \in SUBSET Keys
    /\ calls = << >>
    /\ backend = NewMockCVBackend
    /\ api = ApiIdle

ClassifyHandler ==
    /\ op = "init"
    /\ op' = "classify"
    /\ \E constructs \in BOOLEAN, outcome \in ClassifyImageOutcomes :
           LET r == classify_handler(event, environ, s3, constructs, outcome)
           IN  /\ response' = r.response
               /\ calls' = r.calls
    /\ UNCHANGED << classifications, text_analysis, pattern, match_score,
                    contextual_inferences, entities, event, execution,
                    environ, s3, backend, api >>

NextClassify ==
    \/ ClassifyHandler

SpecClassify == InitClassify /\ [][NextClassify]_vars

\* events of the text extractor: resolved by the Parallel state, without
\* the bucket, and without the processed key
TextEvents ==
    { [ processed_image_key |-> KEY_processed, bucket_name |-> <<"b">>,
        original_image_key |-> KEY_a,
        image_dimensions |-> [ width |-> 800, height |-> 600 ] ],
      [ processed_image_key |-> KEY_processed ],
      [ bucket_name |-> <<"b">> ] }

InitExtractText ==
    /\ classifications = << >>
    /\ text_analysis = [ extracted_text |-> << >>, text_blocks |-> << >> ]
    /\ op = "init"
    /\ pattern = 0
    /\ match_score = 0
    /\ contextual_inferences = << >>
    /\ entities = << >>
    /\ event \in TextEvents
    /\ response = NoResponse
    /\ execution = NotStarted
    /\ environ \in Environments
    /\ s3 \in { { }, { KEY_processed } }
    /\ calls = << >>
    /\ backend = NewMockCVBackend
    /\ api = ApiIdle

ExtractTextHandler ==
    /\ op = "init"
    /\ op' = "extract_text"
    /\ \E constructs \in BOOLEAN, outcome \in BackendTextOutcomes(HandlerBackend(environ)) :
           LET r == extract_text_handler(event, environ, s3, constructs, outcome)
           IN  /\ response' = r.response
               /\ calls' = r.calls
    /\ UNCHANGED << classifications, text_analysis, pattern, match_score,
                    contextual_inferences, entities, event, execution,
                    environ, s3, backend, api >>

NextExtractText ==
    \/ ExtractTextHandler

SpecExtractText == InitExtractText /\ [][NextExtractText]_vars

(***************************************************************************)
(* The image-analysis pipeline: the state machine that __main__.py         *)
(* defines, as Step Functions runs it.  The input and the output of a      *)
(* state are JSON values: DictEvent(d) for an object, ListEvent(l) for an  *)
(* array.                                                                  *)
(***************************************************************************)
\* "Parameters" of the two branch tasks: each key is read from $.body.<key>
BRANCH_PARAMETERS ==
    { "processed_image_key", "bucket_name", "original_image_key", "image_dimensions" }

\* mutant: PreprocessImage leads straight to AggregateResults
STATE_MACHINE_SkippingParallel ==
    [ StartAt |-> "PreprocessImage",
      States |->
        [ PreprocessImage |->
            [ Type |-> "Task", Resource |-> "preprocess", Next |-> "AggregateResults" ],
          ParallelAnalysis |->
            [ Type |-> "Parallel",
              Branches |->
                << [ StartAt |-> "ClassifyImage",
                     States |->
                       [ ClassifyImage |->
                           [ Type |-> "Task", Resource |-> "classify",
                             Parameters |-> BRANCH_PARAMETERS, End |-> TRUE ] ] ],
                   [ StartAt |-> "ExtractText",
                     States |->
                       [ ExtractText |->
                           [ Type |-> "Task", Resource |-> "extract_text",
                             Parameters |-> BRANCH_PARAMETERS, End |-> TRUE ] ] ] >>,
              Next |-> "AggregateResults" ],
          AggregateResults |->
            [ Type |-> "Task", Resource |-> "aggregate", End |-> TRUE ] ] ]

\* step_function_definition
STATE_MACHINE ==
    [ StartAt |-> "PreprocessImage",
      States |->
        [ PreprocessImage |->
            [ Type |-> "Task", Resource |-> "preprocess", Next |-> "ParallelAnalysis" ],
          ParallelAnalysis |->
            [ Type |-> "Parallel",
              Branches |->
                << [ StartAt |-> "ClassifyImage",
                     States |->
                       [ ClassifyImage |->
                           [ Type |-> "Task", Resource |-> "classify",
                             Parameters |-> BRANCH_PARAMETERS, End |-> TRUE ] ] ],
                   [ StartAt |-> "ExtractText",
                     States |->
                       [ ExtractText |->
                           [ Type |-> "Task", Resource |-> "extract_text",
                             Parameters |-> BRANCH_PARAMETERS, End |-> TRUE ] ] ] >>,
              Next |-> "AggregateResults" ],
          AggregateResults |->
            [ Type |-> "Task", Resource |-> "aggregate", End |-> TRUE ] ] ]

\* inputs an execution is started with
ExecutionInputs ==
    { [ image_key |-> "image.jpg", bucket_name |-> "bucket" ],
      [ image_key |-> "image.jpg" ] }

\* preprocess.handler; readable and copyable say whether the S3 calls succeed
preprocess_handler(input, readable, copyable) ==
    IF input.type # "dict"
       \/ "image_key" \notin DOMAIN input.dict
       \/ "bucket_name" \notin DOMAIN input.dict
    THEN [ statusCode |-> 400,
           body |-> [ error |-> "Missing required parameters: image_key, bucket_name" ] ]
    ELSE IF ~ readable
    THEN [ statusCode |-> 500, body |-> [ error |-> "Failed to read image" ] ]
    ELSE IF ~ copyable
    THEN [ statusCode |-> 500, body |-> [ error |-> "Failed to copy image" ] ]
    ELSE [ statusCode |-> 200,
           body |-> [ original_image_key |-> input.dict.image_key,
                      processed_image_key |-> "processed/image.jpg",
                      bucket_name |-> input.dict.bucket_name,
                      image_dimensions |-> [ width |-> 800, height |-> 600 ],
                      processing_metadata |->
                          [ original_size |-> [ width |-> 800, height |-> 600 ],
                            processed_size |-> [ width |-> 800, height |-> 600 ],
                            format |-> "JPEG" ] ] ]

\* what classify.handler may return for an image
ClassifyOutcomes ==
    { ClassifyResult(<< >>),
      ClassifyResult(<< Classification("container", <<"c","o","n","t","a","i","n","e","r">>, 95),
                        Classification("vehicle", STR_truck, 85) >>),
      ErrorResult,
      [ statusCode |-> 500, body |-> [ error |-> "Classification failed" ] ] }

\* what extract_text.handler may return for an image
ExtractTextOutcomes ==
    { TextResult(<< >>,
                 [ container_ids |-> << >>, fleet_numbers |-> << >>,
                   license_plates |-> << >>, other_codes |-> << >> ],
                 0),
      TextResult(<<"M","S","C","U","7","6","5","4","3","2","1"," ","A","B","C","1","2","3">>,
                 [ container_ids |-> << <<"M","S","C","U","7","6","5","4","3","2","1">> >>,
                   fleet_numbers |-> << <<"A","B","C","1","2","3">> >>,
                   license_plates |-> << <<"A","B","C","1","2","3">>, <<"A","B","C","1","2","3">> >>,
                   other_codes |-> << >> ],
                 Frac(95, 100)),
      ErrorResult }

\* the results the Lambda function of a Task state may return for an input
TaskResults(resource, input) ==
    CASE resource = "preprocess" ->
             { preprocess_handler(input, readable, copyable) :
                   readable \in BOOLEAN, copyable \in BOOLEAN }
      [] resource = "classify" -> ClassifyOutcomes
      [] resource = "extract_text" -> ExtractTextOutcomes
      [] resource = "aggregate" -> { handler(input) }

\* every path $.body.<key> of the Parameters resolves in the input
Resolves(parameters, input) ==
    /\ input.type = "dict"
    /\ "body" \in DOMAIN input.dict
    /\ parameters \subseteq DOMAIN input.dict.body

\* the input a branch task is invoked with
Resolved(parameters, input) ==
    DictEvent([ k \in parameters |-> input.dict.body[k] ])

\* the execution enters the state called name with the given input
Enter(ex, name, input) ==
    LET st == STATE_MACHINE.States[name]
    IN  IF st.Type = "Task"
        THEN [ ex EXCEPT !.current = name, !.input = input,
                         !.started = Append(@, name) ]
        ELSE [ ex EXCEPT !.current = name, !.input = input,
                         !.branches = [ i \in 1..Len(st.Branches) |-> "idle" ],
                         !.outputs = [ i \in 1..Len(st.Branches) |-> << >> ] ]

CurrentState == STATE_MACHINE.States[execution.current]

\* the task of branch i of the current Parallel state
BranchTask(i) ==
    CurrentState.Branches[i].States[CurrentState.Branches[i].StartAt]

InitPipeline ==
    /\ ServicesIdle
    /\ classifications = << >>
    /\ text_analysis = [ extracted_text |-> << >>, text_blocks |-> << >> ]
    /\ op = "init"
    /\ pattern = 0
    /\ match_score = 0
    /\ contextual_inferences = << >>
    /\ entities = << >>
    /\ event = ListEvent(<< >>)
    /\ response = NoResponse
    /\ execution = NotStarted

\* StartExecution: the state named by StartAt is entered
StartExecution ==
    /\ UNCHANGED serviceVars
    /\ execution.status = "NOT_STARTED"
    /\ \E input \in ExecutionInputs :
           execution' = Enter([ execution EXCEPT !.status = "RUNNING" ],
                              STATE_MACHINE.StartAt, DictEvent(input))
    /\ UNCHANGED << classifications, text_analysis, op, pattern, match_score,
                    contextual_inferences, entities, event, response >>

\* The Lambda function of the current Task state returns: the state's
\* output is the function's result; the execution ends or enters Next.
\* The aggregator's invocation is the call of aggregate.handler.
TaskSucceeds ==
    /\ UNCHANGED serviceVars
    /\ execution.status = "RUNNING"
    /\ CurrentState.Type = "Task"
    /\ \E result \in TaskResults(CurrentState.Resource, execution.input) :
           LET completed == [ execution EXCEPT
                                !.completed = Append(@, execution.current) ]
           IN  /\ execution' =
                      IF "End" \in DOMAIN CurrentState
                      THEN [ completed EXCEPT !.status = "SUCCEEDED" ]
                      ELSE Enter(completed, CurrentState.Next, DictEvent(result))
               /\ IF CurrentState.Resource = "aggregate"
                  THEN /\ event' = execution.input
                       /\ response' = result
                       /\ op' = "aggregate"
                  ELSE UNCHANGED << event, response, op >>
    /\ UNCHANGED << classifications, text_analysis, pattern, match_score,
                    contextual_inferences, entities >>

\* The invocation of the current Task state fails (time-out, crash): no
\* state has a Retry or a Catch, so the execution fails.
TaskFails ==
    /\ UNCHANGED serviceVars
    /\ execution.status = "RUNNING"
    /\ CurrentState.Type = "Task"
    /\ execution' = [ execution EXCEPT !.status = "FAILED" ]
    /\ UNCHANGED << classifications, text_analysis, op, pattern, match_score,
                    contextual_inferences, entities, event, response >>

\* Branch i of the Parallel state starts on the state's input; a path of
\* its Parameters that does not resolve fails the execution.
BranchStarts(i) ==
    /\ UNCHANGED serviceVars
    /\ execution.status = "RUNNING"
    /\ CurrentState.Type = "Parallel"
    /\ execution.branches[i] = "idle"
    /\ execution' =
           IF Resolves(BranchTask(i).Parameters, execution.input)
           THEN [ execution EXCEPT
                    !.branches[i] = "running",
                    !.started = Append(@, CurrentState.Branches[i].StartAt) ]
           ELSE [ execution EXCEPT !.status = "FAILED" ]
    /\ UNCHANGED << classifications, text_analysis, op, pattern, match_score,
                    contextual_inferences, entities, event, response >>

\* The task of branch i returns: the branch ends with the result as output.
BranchSucceeds(i) ==
    /\ UNCHANGED serviceVars
    /\ execution.status = "RUNNING"
    /\ CurrentState.Type = "Parallel"
    /\ execution.branches[i] = "running"
    /\ \E result \in TaskResults(BranchTask(i).Resource,
                                  Resolved(BranchTask(i).Parameters, execution.input)) :
           execution' = [ execution EXCEPT
                            !.branches[i] = "succeeded",
                            !.outputs[i] = << result >>,
                            !.completed = Append(@, CurrentState.Branches[i].StartAt) ]
    /\ UNCHANGED << classifications, text_analysis, op, pattern, match_score,
                    contextual_inferences, entities, event, response >>

\* The invocation of branch i fails: the Parallel state and the execution fail.
BranchFails(i) ==
    /\ UNCHANGED serviceVars
    /\ execution.status = "RUNNING"
    /\ CurrentState.Type = "Parallel"
    /\ execution.branches[i] = "running"
    /\ execution' = [ execution EXCEPT !.status = "FAILED",
                                       !.branches[i] = "failed" ]
    /\ UNCHANGED << classifications, text_analysis, op, pattern, match_score,
                    contextual_inferences, entities, event, response >>

\* Every branch has ended: the output of the Parallel state is the array of
\* the branches' outputs, in the order of Branches, and Next is entered.
ParallelCompletes ==
    /\ UNCHANGED serviceVars
    /\ execution.status = "RUNNING"
    /\ CurrentState.Type = "Parallel"
    /\ \A i \in 1..Len(CurrentState.Branches) : execution.branches[i] = "succeeded"
    /\ execution' =
           Enter(execution, CurrentState.Next,
                 ListEvent([ i \in 1..Len(CurrentState.Branches) |->
                               execution.outputs[i][1] ]))
    /\ UNCHANGED << classifications, text_analysis, op, pattern, match_score,
                    contextual_inferences, entities, event, response >>

NextPipeline ==
    \/ StartExecution
    \/ TaskSucceeds
    \/ TaskFails
    \/ \E i \in 1..2 : BranchStarts(i)
    \/ \E i \in 1..2 : BranchSucceeds(i)
    \/ \E i \in 1..2 : BranchFails(i)
    \/ ParallelCompletes

SpecPipeline == InitPipeline /\ [][NextPipeline]_vars

(***************************************************************************)
(* api_handler.handler: an invocation validates the request, starts one    *)
(* execution of the state machine and polls describe_execution until the   *)
(* execution has ended or the budget of max_wait_time seconds is spent.    *)
(* Invocations run concurrently; api.clock is the time that datetime.now   *)
(* reads, in ticks of 1/TicksPerSecond second; api.names are the           *)
(* executions that exist.                                                  *)
(***************************************************************************)
max_wait_time == 300

poll_interval == 2

TicksPerSecond == 2

\* the Lambda function's environment (__main__.py)
API_ENVIRONMENT == [ STEP_FUNCTION_ARN |-> "arn" ]

\* the text of a JSON document, with the value json.loads returns for it
JsonText(value) == [ type |-> "str", loads |-> value ]

\* a string that json.loads rejects
MalformedJson == [ type |-> "str", loads |-> Raised ]

ApiBodies ==
    ExecutionInputs
    \cup { [ image_key |-> "", bucket_name |-> "bucket" ],
           [ bucket_name |-> "bucket" ] }

\* the events of API Gateway (body is a string), of a direct invocation
\* with a body, and of a direct invocation with the fields at the top
ApiEvents ==
    { [ body |-> JsonText(b) ] : b \in ApiBodies }
    \cup { [ body |-> MalformedJson ] }
    \cup { [ body |-> b ] : b \in ApiBodies }
    \cup ApiBodies

\* not x, for the value of a field of the body
Not(x) == x = None \/ x = ""

\* lines 17-20: the body of the request, or Raised
ParseRequest(ev) ==
    IF "body" \in DOMAIN ev
    THEN IF "type" \in DOMAIN ev.body THEN ev.body.loads ELSE ev.body
    ELSE ev

\* f"analysis-{now.strftime('%Y%m%d-%H%M%S')}": the time to the second
ExecutionName(now) == << "analysis", now \div TicksPerSecond >>

NewInvocation(ev) ==
    [ pc |-> "start", event |-> ev, execution_name |-> << >>,
      input |-> EmptyDict, waited_time |-> 0, starts |-> 0, polls |-> 0,
      status |-> None, response |-> NoResponse ]

StartFailure ==
    [ statusCode |-> 500, body |-> [ error |-> "Failed to start analysis" ] ]

\* the invocation with its response
Responds(inv, result) == [ inv EXCEPT !.pc = "done", !.response = result ]

\* the executions called name
Named(names, name) == { n \in 1..Len(names) : names[n].name = name }

\* Lines 15-46 for invocation inv at time now.  accepted says whether
\* start_execution succeeds: for a new name the service may fail; for a
\* name that exists it raises ExecutionAlreadyExists, unless the input is
\* the same, when it may answer with the execution that exists.
api_start(inv, now, names, env, accepted) ==
    LET body == ParseRequest(inv.event)
        execution_name == ExecutionName(now)
        called == [ inv EXCEPT !.execution_name = execution_name,
                               !.input = body, !.starts = @ + 1 ]
        existing == Named(names, execution_name)
    IN  IF body = Raised
        THEN [ inv |-> Responds(inv, StartFailure), names |-> names ]
        ELSE IF Not(Get(body, "image_key", None)) \/ Not(Get(body, "bucket_name", None))
        THEN [ inv |-> Responds(inv,
                         [ statusCode |-> 400,
                           body |-> [ error |->
                               "Missing required fields: image_key, bucket_name" ] ]),
               names |-> names ]
        ELSE IF "STEP_FUNCTION_ARN" \notin DOMAIN env
        THEN [ inv |-> Responds(inv, StartFailure), names |-> names ]
        ELSE IF existing = { }
        THEN IF accepted
             THEN [ inv |-> [ called EXCEPT !.pc = "poll" ],
                    names |-> Append(names, [ name |-> execution_name, input |-> body ]) ]
             ELSE [ inv |-> Responds(called, StartFailure), names |-> names ]
        ELSE IF accepted /\ \A n \in existing : names[n].input = body
        THEN [ inv |-> [ called EXCEPT !.pc = "poll" ], names |-> names ]
        ELSE [ inv |-> Responds(called, StartFailure), names |-> names ]

ExecutionStatuses ==
    { "RUNNING", "SUCCEEDED", "FAILED", "TIMED_OUT", "ABORTED", "PENDING_REDRIVE" }

\* f'Step Functions execution {status.lower()}'
ExecutionEnded(status) ==
    CASE status = "ABORTED" -> "Step Functions execution aborted"
      [] status = "TIMED_OUT" -> "Step Functions execution timed_out"

\* mutant: the loop ends only on SUCCEEDED and on FAILED
api_poll_ignoring_aborted(inv, describe_response) ==
    LET status == describe_response.status
        polled == [ inv EXCEPT !.polls = @ + 1, !.status = status ]
    IN  IF status = "SUCCEEDED"
        THEN Responds(polled,
                 [ statusCode |-> 200,
                   body |-> [ success |-> TRUE,
                              execution_name |-> inv.execution_name,
                              analysis_result |-> describe_response.output,
                              processing_time_seconds |-> inv.waited_time ] ])
        ELSE IF status = "FAILED"
        THEN Responds(polled,
                 [ statusCode |-> 500,
                   body |-> [ success |-> FALSE,
                              error |-> "Step Functions execution failed" ] ])
        ELSE IF inv.waited_time + poll_interval < max_wait_time
        THEN [ polled EXCEPT !.waited_time = @ + poll_interval ]
        ELSE Responds([ polled EXCEPT !.waited_time = @ + poll_interval ],
                 [ statusCode |-> 504,
                   body |-> [ success |-> FALSE,
                              error |-> "Request timeout - analysis took longer than expected",
                              timeout_seconds |-> max_wait_time ] ])

\* Lines 54-111, one turn of the loop: describe_execution answers
\* describe_response; the invocation responds, or sleeps poll_interval
\* seconds and, with the budget spent, leaves the loop and responds 504.
api_poll(inv, describe_response) ==
    LET status == describe_response.status
        polled == [ inv EXCEPT !.polls = @ + 1, !.status = status ]
    IN  IF status = "SUCCEEDED"
        THEN Responds(polled,
                 [ statusCode |-> 200,
                   body |-> [ success |-> TRUE,
                              execution_name |-> inv.execution_name,
                              analysis_result |-> describe_response.output,
                              processing_time_seconds |-> inv.waited_time ] ])
        ELSE IF status = "FAILED"
        THEN Responds(polled,
                 [ statusCode |-> 500,
                   body |-> [ success |-> FALSE,
                              error |-> "Step Functions execution failed" ] ])
        ELSE IF status \in { "ABORTED", "TIMED_OUT" }
        THEN Responds(polled,
                 [ statusCode |-> 500,
                   body |-> [ success |-> FALSE,
                              error |-> ExecutionEnded(status) ] ])
        ELSE IF inv.waited_time + poll_interval < max_wait_time
        THEN [ polled EXCEPT !.waited_time = @ + poll_interval ]
        ELSE Responds([ polled EXCEPT !.waited_time = @ + poll_interval ],
                 [ statusCode |-> 504,
                   body |-> [ success |-> FALSE,
                              error |-> "Request timeout - analysis took longer than expected",
                              timeout_seconds |-> max_wait_time ] ])

\* the answers of describe_execution while nothing is known of the execution
DescribeResponses ==
    { [ status |-> st, output |-> EmptyDict ] : st \in ExecutionStatuses \ { "SUCCEEDED" } }
    \cup { [ status |-> "SUCCEEDED", output |-> Failure(400, "Expected 2 parallel results") ] }

\* the answer of describe_execution for the execution of the pipeline
DescribeExecution ==
    [ status |-> execution.status,
      output |-> IF execution.status = "SUCCEEDED" THEN response ELSE EmptyDict ]

InitApi ==
    /\ environ = API_ENVIRONMENT
    /\ s3 = { }
    /\ calls = << >>
    /\ backend = NewMockCVBackend
    /\ api = ApiIdle
    /\ classifications = << >>
    /\ text_analysis = [ extracted_text |-> << >>, text_blocks |-> << >> ]
    /\ op = "init"
    /\ pattern = 0
    /\ match_score = 0
    /\ contextual_inferences = << >>
    /\ entities = << >>
    /\ event = ListEvent(<< >>)
    /\ response = NoResponse
    /\ execution = NotStarted

\* a request reaches a new invocation of the function
ApiRequest(ev) ==
    /\ Len(api.requests) < MaxRequests
    /\ api' = [ api EXCEPT !.requests = Append(@, NewInvocation(ev)) ]
    /\ UNCHANGED << classifications, text_analysis, op, pattern, match_score,
                    contextual_inferences, entities, event, response, execution,
                    environ, s3, calls, backend >>

\* time passes
Tick ==
    /\ api.clock < MaxClock
    /\ api' = [ api EXCEPT !.clock = @ + 1 ]
    /\ UNCHANGED << classifications, text_analysis, op, pattern, match_score,
                    contextual_inferences, entities, event, response, execution,
                    environ, s3, calls, backend >>

\* invocation i runs to the end of start_execution
ApiStartExecution(i, accepted) ==
    /\ i \in 1..Len(api.requests)
    /\ api.requests[i].pc = "start"
    /\ LET started == api_start(api.requests[i], api.clock, api.names, environ, accepted)
       IN  api' = [ api EXCEPT !.requests[i] = started.inv, !.names = started.names ]
    /\ UNCHANGED << classifications, text_analysis, op, pattern, match_score,
                    contextual_inferences, entities, event, response,
                    environ, s3, calls, backend >>

\* the same, where the executions are not followed
ApiStart(i, accepted) ==
    /\ ApiStartExecution(i, accepted)
    /\ UNCHANGED execution

\* invocation i polls once; sleeping takes poll_interval seconds
ApiDescribe(i, describe_response) ==
    /\ i \in 1..Len(api.requests)
    /\ api.requests[i].pc = "poll"
    /\ LET polled == api_poll(api.requests[i], describe_response)
       IN  api' = [ api EXCEPT
                      !.requests[i] = polled,
                      !.clock = IF polled.waited_time = api.requests[i].waited_time
                                THEN @ ELSE @ + poll_interval * TicksPerSecond ]
    /\ UNCHANGED << classifications, text_analysis, op, pattern, match_score,
                    contextual_inferences, entities, event, response, execution,
                    environ, s3, calls, backend >>

\* one request, and any answers of describe_execution
NextApi ==
    \/ \E ev \in ApiEvents : api.requests = << >> /\ ApiRequest(ev)
    \/ Tick
    \/ \E accepted \in BOOLEAN : ApiStart(1, accepted)
    \/ \E describe_response \in DescribeResponses : ApiDescribe(1, describe_response)

SpecApi == InitApi /\ [][NextApi]_vars

\* concurrent requests, whose executions have ended at the first poll
NextRequests ==
    \/ \E ev \in ApiEvents : ApiRequest(ev)
    \/ Tick
    \/ \E i \in 1..MaxRequests, accepted \in BOOLEAN : ApiStart(i, accepted)
    \/ \E i \in 1..MaxRequests :
           \E describe_response \in
                  { d \in DescribeResponses : d.status \in { "SUCCEEDED", "FAILED" } } :
               ApiDescribe(i, describe_response)

SpecRequests == InitApi /\ [][NextRequests]_vars

\* start_execution of the one request starts the pipeline
ApiStartPipeline(accepted) ==
    /\ ApiStartExecution(1, accepted)
    /\ execution' =
           IF api'.requests[1].pc = "poll"
           THEN Enter([ execution EXCEPT !.status = "RUNNING" ],
                      STATE_MACHINE.StartAt, DictEvent(api'.requests[1].input))
           ELSE execution

\* describe_execution answers for the pipeline's execution
ApiDescribePipeline ==
    /\ execution.status # "NOT_STARTED"
    /\ ApiDescribe(1, DescribeExecution)

\* one request and the execution it starts
NextService ==
    \/ \E ev \in ApiEvents : api.requests = << >> /\ ApiRequest(ev)
    \/ \E accepted \in BOOLEAN : ApiStartPipeline(accepted)
    \/ ApiDescribePipeline
    \/ TaskSucceeds
    \/ TaskFails
    \/ \E i \in 1..2 : BranchStarts(i)
    \/ \E i \in 1..2 : BranchSucceeds(i)
    \/ \E i \in 1..2 : BranchFails(i)
    \/ ParallelCompletes

SpecService == InitApi /\ [][NextService]_vars

(***************************************************************************)
(* Properties.                                                             *)
(***************************************************************************)
ExtractedText == text_analysis.extracted_text

\* indices of the classifications that are visual evidence for pattern k
VisualIndices(k) ==
    { i \in 1..Len(classifications) :
        Lower(classifications[i].subcategory)
            \in Range(VEHICLE_PATTERNS[k].visual_requirements) }

\* number of text patterns of pattern k that the lower-cased text matches
TextMatchCount(k) ==
    Cardinality({ j \in 1..Len(VEHICLE_PATTERNS[k].text_patterns) :
                    Search(VEHICLE_PATTERNS[k].text_patterns[j], Lower(ExtractedText)) })

RECURSIVE SumConfidence(_)
SumConfidence(indices) ==
    IF indices = {} THEN 0
    ELSE LET i == CHOOSE x \in indices : TRUE
         IN  classifications[i].confidence + SumConfidence(indices \ { i })

\* min((0.4 * sum + 0.3 * t + (0.1 if t > 1 else 0)) / (v + t), 1.0)
ClosedFormScore(sum, v, t) ==
    Min((MulFrac(sum, 4, 10) + t * Frac(3, 10)
         + (IF t > 1 THEN Frac(1, 10) ELSE 0)) \div (v + t),
        Unit)

ScoreOf(k) ==
    calculate_pattern_match_score(VEHICLE_PATTERNS[k], classifications,
                                  ExtractedText, text_analysis.text_blocks)

PatternIndex(vehicle_type) ==
    CHOOSE k \in 1..Len(VEHICLE_PATTERNS) : VEHICLE_PATTERNS[k].name = vehicle_type

\* C1: determine_entities never returns an empty list, whatever the
\* classifications, the text and the inferences are.
C1_EntitiesNeverEmpty ==
    op = "entities" => Len(entities) >= 1

\* C1 witness: no classification and only an inference that does not
\* qualify (confidence <= 0.3), yet one entity is returned.
C1_Witness ==
    /\ op = "entities"
    /\ classifications = << >>
    /\ contextual_inferences # << >>
    /\ \A i \in 1..Len(contextual_inferences) :
           contextual_inferences[i].confidence <= Frac(3, 10)
    /\ Len(entities) = 1

\* C2: the score of a pattern lies in [0, 1], and is exactly 0 when no
\* classification's lower-cased subcategory is a visual requirement of the
\* pattern, however many text patterns match.
C2_ScoreInUnitRange ==
    op = "score" =>
        /\ match_score >= 0
        /\ match_score <= Unit
        /\ (VisualIndices(pattern) = {} => match_score = 0)

\* C2 witness: classifications are present, none is visual evidence, two or
\* more text patterns match, and the score is 0.
C2_Witness ==
    /\ op = "score"
    /\ classifications # << >>
    /\ VisualIndices(pattern) = {}
    /\ TextMatchCount(pattern) > 1
    /\ match_score = 0

\* C3: the list returned by infer_vehicle_context is sorted by confidence,
\* non-increasing, and inferences of equal confidence are in the order in
\* which VEHICLE_PATTERNS declares their patterns.
C3_RankedStable ==
    op = "infer" =>
        \A i \in 1..Len(contextual_inferences) :
            \A j \in (i + 1)..Len(contextual_inferences) :
                /\ contextual_inferences[i].confidence
                       >= contextual_inferences[j].confidence
                /\ (contextual_inferences[i].confidence
                        = contextual_inferences[j].confidence
                    => PatternIndex(contextual_inferences[i].vehicle_type)
                           < PatternIndex(contextual_inferences[j].vehicle_type))

\* C3 witness: a ranking in which two inferences have the same confidence
\* and a later-declared pattern is ranked before an earlier one.
C3_Witness ==
    /\ op = "infer"
    /\ \E i \in 1..Len(contextual_inferences) :
           \E j \in (i + 1)..Len(contextual_inferences) :
               contextual_inferences[i].confidence
                   = contextual_inferences[j].confidence
    /\ \E i \in 1..Len(contextual_inferences) :
           \E j \in (i + 1)..Len(contextual_inferences) :
               PatternIndex(contextual_inferences[i].vehicle_type)
                   > PatternIndex(contextual_inferences[j].vehicle_type)

\* C4: with an empty classification list infer_vehicle_context returns no
\* inference, whatever the text, and determine_entities then returns exactly
\* one entity: type 'unknown', no operator, confidence 0.0 and all the
\* identifiers extracted from the text.
C4_NoVisualEvidenceFallsThrough ==
    /\ (op = "infer" /\ classifications = << >> => contextual_inferences = << >>)
    /\ (op = "entities" /\ classifications = << >> /\ contextual_inferences = << >>
        => /\ Len(entities) = 1
           /\ entities[1].type = STR_unknown
           /\ entities[1].operator = None
           /\ entities[1].confidence = 0
           /\ entities[1].identifiers
                  = extract_structured_identifiers(text_analysis.text_blocks,
                                                   ExtractedText))

\* C4 witness: no classification, a text that matches several text patterns
\* of shipping_container and names an operator, and the single unknown
\* entity carries the identifiers of the text.
C4_Witness ==
    /\ op = "entities"
    /\ classifications = << >>
    /\ contextual_inferences = << >>
    /\ TextMatchCount(PatternIndex("shipping_container")) > 1
    /\ extract_operator_from_text(ExtractedText) # None
    /\ Len(entities) = 1
    /\ entities[1].type = STR_unknown
    /\ Len(entities[1].identifiers) > 1

\* C5: with v >= 1 qualifying classifications and t matching text patterns
\* the score is min((0.4 * sum(c_i) + 0.3 * t + (0.1 if t > 1 else 0)) /
\* (v + t), 1.0): the bonus is added once, before the division.
C5_ScoreClosedForm ==
    op = "score" /\ VisualIndices(pattern) # {} =>
        match_score = ClosedFormScore(SumConfidence(VisualIndices(pattern)),
                                      Cardinality(VisualIndices(pattern)),
                                      TextMatchCount(pattern))

\* C5 witness: two qualifying classifications and more than one text match
\* (the bonus applies).
C5_Witness ==
    /\ op = "score"
    /\ Cardinality(VisualIndices(pattern)) = 2
    /\ TextMatchCount(pattern) > 1
    /\ match_score > 0

TextMatchCountIgnoreCase(k) ==
    Cardinality({ j \in 1..Len(VEHICLE_PATTERNS[k].text_patterns) :
                    Search(IgnoreCase(VEHICLE_PATTERNS[k].text_patterns[j]),
                           ExtractedText) })

\* C7: every regex of a pattern's text_patterns that matches the OCR text
\* case-insensitively counts as a text match (0.3 and one more evidence),
\* the container-ID regex of shipping_container included.
C7_EveryMatchingRegexCounts ==
    op = "score" /\ VisualIndices(pattern) # {} =>
        match_score = ClosedFormScore(SumConfidence(VisualIndices(pattern)),
                                      Cardinality(VisualIndices(pattern)),
                                      TextMatchCountIgnoreCase(pattern))

\* C8: in every entity returned by determine_entities no identifier occurs
\* twice in the identifiers list.
C8_IdentifiersDeduplicated ==
    op = "entities" =>
        \A e \in 1..Len(entities) :
            \A i \in 1..Len(entities[e].identifiers) :
                \A j \in (i + 1)..Len(entities[e].identifiers) :
                    entities[e].identifiers[i] # entities[e].identifiers[j]

\* the branch results carried by the event
ParallelResults ==
    IF event.type = "list" THEN event.items ELSE Get(event.dict, "body", << >>)

BodyHasKey(result, key) ==
    IsDict(result) /\ key \in DOMAIN Get(result, "body", EmptyDict)

\* exactly two results, one with 'classifications', the other with
\* 'extracted_text'
BothBranchesPresent ==
    /\ Len(ParallelResults) = 2
    /\ \E i, j \in 1..2 :
           /\ i # j
           /\ BodyHasKey(ParallelResults[i], "classifications")
           /\ BodyHasKey(ParallelResults[j], "extracted_text")

\* the body of the last branch result that carries the key
BranchBody(key) ==
    LET i == CHOOSE i \in 1..Len(ParallelResults) :
                 /\ BodyHasKey(ParallelResults[i], key)
                 /\ \A j \in (i + 1)..Len(ParallelResults) :
                        ~ BodyHasKey(ParallelResults[j], key)
    IN  ParallelResults[i].body

\* C9: the aggregate handler answers 400, without an analysis result and
\* without analysis_complete being true, whenever a branch result is absent
\* or malformed, and answers 200 only when both are present.
C9_ValidationFailure ==
    op = "aggregate" =>
        /\ (~ BothBranchesPresent =>
               /\ response.statusCode = 400
               /\ "image_classification" \notin DOMAIN response.body
               /\ Get(response.body, "analysis_complete", FALSE) = FALSE)
        /\ (response.statusCode = 200 => BothBranchesPresent)

\* keys of the success body whose content the handler defines as something
\* other than the Entity Resolver's output
OtherViewKeys ==
    { "analysis_complete", "timestamp", "image_classification", "text_analysis",
      "contextual_inferences", "confidence_score", "processing_metadata" }

\* C10: every successful aggregate result carries the enhanced
\* classifications, the ranked inferences and the Entity Resolver's
\* non-empty entity list for the same classifications and text.
C10_BothViewsReturned ==
    op = "aggregate" /\ response.statusCode = 200 =>
        /\ "detected_items" \in DOMAIN response.body.image_classification
        /\ "contextual_inferences" \in DOMAIN response.body
        /\ \E key \in DOMAIN response.body \ OtherViewKeys :
               /\ response.body[key]
                      = determine_entities(
                            response.body.image_classification.raw_classifications,
                            response.body.text_analysis,
                            response.body.contextual_inferences)
               /\ Len(response.body[key]) >= 1

\* the arguments the handler passes to calculate_overall_confidence
ScoresGiven == Get(BranchBody("classifications"), "confidence_scores", EmptyDict)

TextConfidenceGiven ==
    Get(Get(BranchBody("extracted_text"), "processing_metadata", EmptyDict),
        "text_confidence", 0)

\* x as a whole number of 1/d-ths; -1 when x is not a whole number of them
Scaled(x, d) == IF x % (Unit \div d) = 0 THEN x \div (Unit \div d) ELSE -1

\* C11: the overall confidence is avg(confidence_scores values) * 0.7 +
\* text_confidence * 0.3 when confidence_scores is non-empty, and
\* text_confidence * 0.5 when it is empty or missing, a missing
\* text_confidence counting as 0.0; it lies in [0, 1].
C11_OverallConfidence ==
    op = "aggregate" /\ response.statusCode = 200 =>
        LET n == Cardinality(DOMAIN ScoresGiven)
            overall == response.body.confidence_score
            sum == SumValues([ k \in DOMAIN ScoresGiven |-> Scaled(ScoresGiven[k], 100) ],
                             DOMAIN ScoresGiven)
        IN  /\ (n > 0 =>
                   Scaled(overall, 1000 * n)
                       = 7 * sum + 3 * n * Scaled(TextConfidenceGiven, 100))
            /\ (n = 0 => Scaled(overall, 1000) = 5 * Scaled(TextConfidenceGiven, 100))
            /\ overall >= 0
            /\ overall <= Unit

\* C11 witness: three scores that are not all equal and a text confidence
\* above 0 give an overall confidence strictly between the two.
C11_Witness ==
    /\ op = "aggregate"
    /\ response.statusCode = 200
    /\ Cardinality(DOMAIN ScoresGiven) = 3
    /\ \E a, b \in DOMAIN ScoresGiven : ScoresGiven[a] # ScoresGiven[b]
    /\ TextConfidenceGiven > 0
    /\ response.body.confidence_score > 0
    /\ response.body.confidence_score < TextConfidenceGiven

\* the arguments the handler passes to merge_identifiers_with_classifications
ClassificationsGiven == Get(BranchBody("classifications"), "classifications", << >>)

IdentifiersGiven == Get(BranchBody("extracted_text"), "structured_identifiers", EmptyDict)

\* a vehicle whose subcategory contains 'truck', in either case of letters
IsTruck(c) ==
    /\ "category" \in DOMAIN c /\ c.category = "vehicle"
    /\ \E i \in 1..Len(c.subcategory) :
           /\ i + 4 <= Len(c.subcategory)
           /\ \A j \in 1..5 : LowerChar(c.subcategory[i + j - 1]) = STR_truck[j]

IsContainer(c) == "category" \in DOMAIN c /\ c.category = "container"

\* e is c with the keys added, bound to the text branch's lists (empty when
\* the text branch has none)
Gains(e, c, keys) ==
    /\ DOMAIN e = DOMAIN c \cup keys
    /\ \A k \in DOMAIN c \ keys : e[k] = c[k]
    /\ \A k \in keys : e[k] = Get(IdentifiersGiven, k, << >>)

Qualifying ==
    SelectSeq(contextual_inferences, LAMBDA inf : inf.confidence > Frac(3, 10))

\* the entity type the fixed table gives a pattern name
MappedType(vehicle_type) ==
    CASE vehicle_type \in { "postal_delivery", "commercial_delivery" }
             -> STR_commercial_vehicle_van
      [] vehicle_type = "shipping_container" -> STR_cargo_container
      [] vehicle_type = "emergency_vehicle" -> STR_emergency_vehicle_response
      [] OTHER -> STR_unknown

\* C13: when at least one supplied inference has confidence above 0.3,
\* determine_entities returns one entity per such inference, in the
\* inferences' order, each with the type of the fixed table ('unknown' for
\* any other name), the inference's confidence and the inference's own
\* identifier list, and nothing else.
C13_OneEntityPerInference ==
    op = "entities" /\ Qualifying # << >> =>
        /\ Len(entities) = Len(Qualifying)
        /\ \A i \in 1..Len(Qualifying) :
               /\ entities[i].type = MappedType(Qualifying[i].vehicle_type)
               /\ entities[i].confidence = Qualifying[i].confidence
               /\ entities[i].identifiers = Qualifying[i].structured_identifiers

\* C13 witness: classifications are present, two inferences qualify and one
\* between them does not; two entities are returned.
C13_Witness ==
    /\ op = "entities"
    /\ classifications # << >>
    /\ Len(Qualifying) = 2
    /\ \E i \in 2..(Len(contextual_inferences) - 1) :
           /\ contextual_inferences[i].confidence <= Frac(3, 10)
           /\ contextual_inferences[i - 1].confidence > Frac(3, 10)
           /\ contextual_inferences[i + 1].confidence > Frac(3, 10)
    /\ Len(entities) = 2

\* the index of the classification of maximal confidence, the first one
\* among equals
FirstMaximum ==
    CHOOSE b \in 1..Len(classifications) :
        /\ \A j \in 1..Len(classifications) :
               classifications[j].confidence <= classifications[b].confidence
        /\ \A j \in 1..(b - 1) :
               classifications[j].confidence < classifications[b].confidence

\* the type tag of the fallback entity for a classification
FallbackType(c) ==
    CASE c.category = "vehicle" /\ c.subcategory \in { STR_van, STR_truck }
             -> STR_commercial_vehicle_van
      [] c.category = "vehicle" /\ c.subcategory \notin { STR_van, STR_truck }
             -> STR_commercial_vehicle_ \o c.subcategory
      [] c.category = "container" -> STR_cargo_container
      [] OTHER -> STR_unknown

\* C14: when no supplied inference has confidence above 0.3 and there are
\* classifications, determine_entities returns exactly one entity, built
\* from the classification of maximal confidence (the first in input order
\* among equal maxima), with that classification's confidence and all the
\* identifiers extracted from the text.
C14_FallbackFirstMaximum ==
    op = "entities" /\ Qualifying = << >> /\ classifications # << >> =>
        /\ Len(entities) = 1
        /\ entities[1].type = FallbackType(classifications[FirstMaximum])
        /\ entities[1].confidence = classifications[FirstMaximum].confidence
        /\ entities[1].identifiers
               = extract_structured_identifiers(text_analysis.text_blocks, ExtractedText)

\* C14 witness: an inference below the threshold is supplied, two
\* classifications of different kinds tie for the maximum, and the text
\* carries identifiers.
C14_Witness ==
    /\ op = "entities"
    /\ contextual_inferences # << >>
    /\ Qualifying = << >>
    /\ Len(classifications) = 2
    /\ classifications[1].confidence = classifications[2].confidence
    /\ FallbackType(classifications[1]) # FallbackType(classifications[2])
    /\ Len(entities) = 1
    /\ entities[1].type = FallbackType(classifications[1])
    /\ entities[1].identifiers # << >>

\* C15: in every inference returned by infer_vehicle_context the
\* structured_identifiers are all the extracted license plates, then all
\* the fleet identifiers if the vehicle type is postal_delivery and none
\* otherwise, then all the container IDs if it is shipping_container and
\* none otherwise: the extractor's order is kept.
C15_IdentifierFiltering ==
    op = "infer" =>
        \A i \in 1..Len(contextual_inferences) :
            contextual_inferences[i].structured_identifiers
                = extract_license_plates_with_jurisdiction(ExtractedText)
                  \o (IF contextual_inferences[i].vehicle_type = "postal_delivery"
                      THEN extract_fleet_ids(ExtractedText) ELSE << >>)
                  \o (IF contextual_inferences[i].vehicle_type = "shipping_container"
                      THEN extract_container_ids(ExtractedText) ELSE << >>)

\* C15 witness: the text yields a plate, a fleet identifier and a container
\* ID; a postal_delivery inference carries the fleet identifier and no
\* container ID, a shipping_container inference the reverse.
C15_Witness ==
    /\ op = "infer"
    /\ extract_license_plates_with_jurisdiction(ExtractedText) # << >>
    /\ extract_fleet_ids(ExtractedText) # << >>
    /\ extract_container_ids(ExtractedText) # << >>
    /\ \E i, j \in 1..Len(contextual_inferences) :
           /\ contextual_inferences[i].vehicle_type = "postal_delivery"
           /\ contextual_inferences[j].vehicle_type = "shipping_container"
           /\ \E n \in 1..Len(contextual_inferences[i].structured_identifiers) :
                  StartsWith(contextual_inferences[i].structured_identifiers[n],
                             FLEET_PREFIX)
           /\ \A n \in 1..Len(contextual_inferences[j].structured_identifiers) :
                  ~ StartsWith(contextual_inferences[j].structured_identifiers[n],
                               FLEET_PREFIX)
           /\ \E n \in 1..Len(contextual_inferences[j].structured_identifiers) :
                  StartsWith(contextual_inferences[j].structured_identifiers[n],
                             CONTAINER_PREFIX)

\* the value of an identifier: what follows its kind and jurisdiction
ValueOf(identifier) == AfterLastColon(identifier)

\* C16: every identifier produced by extract_structured_identifiers has a
\* normalized value, without lower-case letters and without whitespace of
\* any kind, also when the separator inside a plate or a container ID is a
\* tab or a newline.
C16_ValuesNormalized ==
    op = "entities" =>
        \A e \in 1..Len(entities) :
            \A i \in 1..Len(entities[e].identifiers) :
                \A n \in 1..Len(ValueOf(entities[e].identifiers[i])) :
                    ValueOf(entities[e].identifiers[i])[n] \notin LowerSet \cup Whitespace

\* An ISO-6346-shaped token of s starts at p: four letters, six digits and
\* one digit, with sp1 and sp2 (0 or 1) spaces between the groups, not
\* preceded or followed by a word character.
ShapeAt(s, p, sp1, sp2) ==
    LET d == p + 4 + sp1
        c == d + 6 + sp2
    IN  /\ c <= Len(s)
        /\ \A i \in p..(p + 3) : s[i] \in UpperSet
        /\ (sp1 = 1 => s[p + 4] = " ")
        /\ \A i \in d..(d + 5) : s[i] \in Digits
        /\ (sp2 = 1 => s[d + 6] = " ")
        /\ s[c] \in Digits
        /\ (p > 1 => s[p - 1] \notin WordChars)
        /\ (c < Len(s) => s[c + 1] \notin WordChars)

\* the token without its spaces
ShapeValue(s, p, sp1, sp2) ==
    SubSeq(s, p, p + 3) \o SubSeq(s, p + 4 + sp1, p + 9 + sp1)
    \o << s[p + 10 + sp1 + sp2] >>

HasCarrierPrefix(v) ==
    \/ SubSeq(v, 1, 4) = <<"U","S","P","S">>
    \/ SubSeq(v, 1, 4) = <<"F","E","D","X">>
    \/ SubSeq(v, 1, 4) = <<"U","P","S","X">>

\* the container IDs among the identifiers of the single entity returned
\* when no inference qualifies: the output of extract_container_ids
ContainerIdsReturned ==
    SelectSeq(entities[1].identifiers, LAMBDA id : StartsWith(id, CONTAINER_PREFIX))

\* C17: extract_container_ids never returns an identifier whose value
\* begins with USPS, FEDX or UPSX, and returns every other ISO-6346-shaped
\* token (4 letters + 6 digits + 1 digit, optional internal space) of the
\* upper-cased text.
C17_ContainerIds ==
    op = "entities" /\ Qualifying = << >> =>
        /\ \A i \in 1..Len(ContainerIdsReturned) :
               ~ HasCarrierPrefix(ValueOf(ContainerIdsReturned[i]))
        /\ \A p \in 1..Len(ExtractedText) : \A sp1, sp2 \in { 0, 1 } :
               ShapeAt(Upper(ExtractedText), p, sp1, sp2)
               /\ ~ HasCarrierPrefix(ShapeValue(Upper(ExtractedText), p, sp1, sp2))
               => \E i \in 1..Len(ContainerIdsReturned) :
                      ContainerIdsReturned[i]
                          = CONTAINER_PREFIX
                            \o ShapeValue(Upper(ExtractedText), p, sp1, sp2)

\* C17 witness: the text holds a token with a carrier prefix, written with
\* spaces, and another token; only the other one is returned.
C17_Witness ==
    /\ op = "entities"
    /\ Qualifying = << >>
    /\ \E p \in 1..Len(ExtractedText) :
           /\ ShapeAt(Upper(ExtractedText), p, 1, 1)
           /\ HasCarrierPrefix(ShapeValue(Upper(ExtractedText), p, 1, 1))
    /\ \E p \in 1..Len(ExtractedText) :
           /\ ShapeAt(Upper(ExtractedText), p, 0, 0)
           /\ ~ HasCarrierPrefix(ShapeValue(Upper(ExtractedText), p, 0, 0))
    /\ Len(ContainerIdsReturned) = 1

\* the operators in the order of their declaration
DeclarationOrder ==
    << "UPS", "FedEx", "USPS", "Amazon", "DHL", "Maersk", "Evergreen", "COSCO",
       "MSC", "Police", "Fire", "Ambulance" >>

\* the operators with at least one pattern matching the lower-cased text
MatchingOperators ==
    { OPERATORS[k].name : k \in { k \in 1..Len(OPERATORS) :
        \E j \in 1..Len(OPERATORS[k].patterns) :
            Search(OPERATORS[k].patterns[j], Lower(ExtractedText)) } }

\* the entities built from an inference or a classification carry the
\* result of extract_operator_from_text
OperatorsReturned ==
    IF Qualifying # << >> \/ classifications # << >>
    THEN { entities[e].operator : e \in 1..Len(entities) }
    ELSE {}

\* C18: extract_operator_from_text returns the first operator, in the
\* order UPS, FedEx, USPS, Amazon, DHL, Maersk, Evergreen, COSCO, MSC,
\* Police, Fire, Ambulance, that has a pattern matching the lower-cased
\* text, wherever the matches are in the text, and None when no operator
\* has one.
C18_FirstOperatorInTableOrder ==
    op = "entities" =>
        \A operator \in OperatorsReturned :
            IF MatchingOperators = {}
            THEN operator = None
            ELSE \E k \in 1..Len(DeclarationOrder) :
                     /\ operator = DeclarationOrder[k]
                     /\ operator \in MatchingOperators
                     /\ \A j \in 1..(k - 1) :
                            DeclarationOrder[j] \notin MatchingOperators

\* C18 witness: the text names Maersk first and FedEx after it; the
\* operator returned is FedEx.
C18_Witness ==
    /\ op = "entities"
    /\ StartsWith(ExtractedText, <<"M","A","E","R","S","K">>)
    /\ MatchingOperators = { "FedEx", "Maersk" }
    /\ OperatorsReturned = { "FedEx" }

\* the event is two well-formed branch results, with no classification and
\* no text
EmptyBranchResults ==
    /\ BothBranchesPresent
    /\ \A i \in 1..2 : IsDict(ParallelResults[i])
    /\ ClassificationsGiven = << >>
    /\ Get(BranchBody("extracted_text"), "extracted_text", << >>) = << >>

\* C19: empty inputs are valid.  With no classification and an empty text
\* infer_vehicle_context returns no inference and determine_entities the
\* single unknown entity without identifiers; the aggregate handler, given
\* two well-formed branch results with classifications = [] and
\* extracted_text = '', answers 200 with an empty enhanced list, no
\* inference and the overall confidence of empty confidence_scores.
C19_EmptyInputsValid ==
    /\ (op = "infer" /\ classifications = << >> /\ ExtractedText = << >>
        => contextual_inferences = << >>)
    /\ (op = "entities" /\ classifications = << >> /\ ExtractedText = << >>
        => /\ Len(entities) = 1
           /\ entities[1].type = STR_unknown
           /\ entities[1].identifiers = << >>
           /\ entities[1].confidence = 0)
    /\ (op = "aggregate" /\ EmptyBranchResults
        => /\ response.statusCode = 200
           /\ response.body.analysis_complete = TRUE
           /\ response.body.image_classification.detected_items = << >>
           /\ response.body.contextual_inferences = << >>
           /\ (ScoresGiven = EmptyDict
               => 2 * response.body.confidence_score = TextConfidenceGiven))

\* C19 witness: the handler has answered 200 to two branch results without
\* classifications, confidence scores, text and identifiers.
C19_Witness ==
    /\ op = "aggregate"
    /\ EmptyBranchResults
    /\ ScoresGiven = EmptyDict
    /\ \A k \in DOMAIN IdentifiersGiven : IdentifiersGiven[k] = << >>
    /\ response.statusCode = 200
    /\ response.body.confidence_score = 0

\* the task has been started / has returned in this execution
Started(name) == \E i \in 1..Len(execution.started) : execution.started[i] = name

Completed(name) == \E i \in 1..Len(execution.completed) : execution.completed[i] = name

\* C20: in the pipeline PreprocessImage has completed before ClassifyImage
\* or ExtractText starts; AggregateResults starts only after both branches
\* have completed, and its input is the two branch results together, as
\* one list of two elements in the order of the branches; aggregate.handler
\* is never invoked with anything else.
C20_PipelineOrdering ==
    /\ (Started("ClassifyImage") \/ Started("ExtractText")
        => Completed("PreprocessImage"))
    /\ (Started("AggregateResults")
        => /\ Completed("ClassifyImage")
           /\ Completed("ExtractText")
           /\ execution.input
                  = ListEvent(<< execution.outputs[1][1], execution.outputs[2][1] >>))
    /\ (op = "aggregate"
        => /\ Started("AggregateResults")
           /\ event.type = "list"
           /\ Len(event.items) = 2
           /\ event.items = << execution.outputs[1][1], execution.outputs[2][1] >>)

\* C20 witness: ClassifyImage started first and ExtractText returned first
\* (the branches interleave), and the aggregator, invoked with both
\* results, has answered 200.
C20_Witness ==
    /\ op = "aggregate"
    /\ execution.status = "SUCCEEDED"
    /\ execution.started
           = << "PreprocessImage", "ClassifyImage", "ExtractText", "AggregateResults" >>
    /\ execution.completed
           = << "PreprocessImage", "ExtractText", "ClassifyImage", "AggregateResults" >>
    /\ Len(event.items) = 2
    /\ response.statusCode = 200

(***************************************************************************)
(* The classifier branch.                                                  *)
(***************************************************************************)
\* the event names a processed image and a bucket
ParametersGiven ==
    /\ ~ Falsy(Get(event, "processed_image_key", NoneStr))
    /\ ~ Falsy(Get(event, "bucket_name", NoneStr))

\* C21: with CV_BACKEND=mock and the processed image readable in S3,
\* classify.handler returns statusCode 200 with at least one
\* classification; and the backend the factory returns accepts the call
\* classify_image(image_data, image_dimensions=...).
C21_MockBackendClassifies ==
    (op = "classify" /\ ParametersGiven)
    => /\ (environ = [ CV_BACKEND |-> STR_mock ] /\ event.processed_image_key \in s3)
          => /\ response.statusCode = 200
             /\ Len(response.body.classifications) >= 1
       /\ get_classification_backend(environ) # NotImplementedError
          => ACCEPTS_IMAGE_DIMENSIONS[get_classification_backend(environ)]

(***************************************************************************)
(* The mock backend.                                                       *)
(***************************************************************************)
\* C22: after any sequence of classify_image calls on one MockCVBackend
\* instance, the call returns between 1 and 3 distinct classifications, each
\* with a confidence in [0.5, 1.0], and confidence_scores has one entry per
\* returned classification, with the same confidence.
C22_MockClassificationsValid ==
    op = "classify_image"
    => LET cls == response.classifications
           scores == response.confidence_scores
       IN  /\ Len(cls) \in 1..3
           /\ \A i, j \in 1..Len(cls) : i # j => cls[i] # cls[j]
           /\ \A i \in 1..Len(cls) :
                  /\ cls[i].confidence >= Frac(50, 100)
                  /\ cls[i].confidence <= Unit
                  /\ cls[i].subcategory \in DOMAIN scores
                  /\ scores[cls[i].subcategory] = cls[i].confidence
           /\ Cardinality(DOMAIN scores) = Len(cls)

\* a second call returns three classifications, one brought down to the
\* floor 0.5 and one up to the ceiling 1.0 by the calls before it
C22_Witness ==
    /\ op = "classify_image"
    /\ Len(calls) = 2
    /\ Len(response.classifications) = 3
    /\ \E i \in 1..3 : response.classifications[i].confidence = Frac(50, 100)
    /\ \E i \in 1..3 : response.classifications[i].confidence = Unit
    /\ backend.mock_classifications # MOCK_CLASSIFICATIONS

IsGetObject(call) == call.fn = "get_object"

\* the keys the handler asked S3 for, in the order of the calls
KeysRead ==
    LET reads == SelectSeq(calls, IsGetObject)
    IN  [ i \in 1..Len(reads) |-> reads[i].Key ]

\* the key of the fallback read: original_image_key, or the processed key
\* with 'processed/' removed
OriginalKey ==
    IF "original_image_key" \in DOMAIN event
    THEN event.original_image_key
    ELSE Replace(event.processed_image_key, STR_processed_, << >>)

\* C23: classify.handler reads the processed image key first and the
\* original image key only if that read fails; it returns 404 'Failed to
\* download image from S3' exactly when both reads fail, and then never
\* calls classify_image.
C23_ReadOrderAndNotFound ==
    op = "classify"
    => /\ Len(KeysRead) <= 2
       /\ Len(KeysRead) >= 1 => KeysRead[1] = event.processed_image_key
       /\ Len(KeysRead) = 2
          => /\ KeysRead[1] \notin s3
             /\ KeysRead[2] = OriginalKey
       /\ response.statusCode = 404
          <=> /\ Len(KeysRead) = 2
              /\ KeysRead[1] \notin s3
              /\ KeysRead[2] \notin s3
       /\ response.statusCode = 404
          => /\ response.body.error = "Failed to download image from S3"
             /\ \A i \in 1..Len(calls) : calls[i].fn # "classify_image"
       /\ Len(KeysRead) = 1 => KeysRead[1] \in s3

\* both reads fail, the second one of the key derived from the processed key
C23_Witness ==
    /\ op = "classify"
    /\ response.statusCode = 404
    /\ "original_image_key" \notin DOMAIN event
    /\ KeysRead = << KEY_processed, KEY_a >>
    /\ s3 = { KEY_other }

(***************************************************************************)
(* The text-extraction branch.                                             *)
(***************************************************************************)
\* the backend was asked for the text
TextBackendCalled == \E i \in 1..Len(calls) : calls[i].fn = "extract_text"

\* C24: the text-extraction step selects its backend as documented for text
\* extraction: TEXT_EXTRACTION_BACKEND takes precedence and CV_BACKEND is only
\* the fallback, so with the deployed environment the handler uses the GCP
\* Vision REST backend and not the mock backend.
C24_TextBackendSelection ==
    (op = "extract_text" /\ TextBackendCalled)
    => /\ \A i \in 1..Len(calls) :
              calls[i].fn = "extract_text"
              => calls[i].backend = get_text_extraction_backend(environ)
       /\ environ = TEXT_EXTRACTOR_ENVIRONMENT
          => /\ \A i \in 1..Len(calls) :
                    calls[i].fn = "extract_text"
                    => calls[i].backend = "GCPVisionRestBackend"
             /\ response.statusCode = 200
                => response.body.processing_metadata.api_provider = "gcp_vision_rest"

(***************************************************************************)
(* The score and the text evidence.                                        *)
(***************************************************************************)
\* the score of pattern k for the same classifications and a text that
\* matches none of the pattern's regexes (the empty text)
ScoreWithoutText(k) ==
    calculate_pattern_match_score(VEHICLE_PATTERNS[k], classifications, << >>, << >>)

\* C25: corroborating text evidence never lowers a pattern's score: with at
\* least one qualifying visual match, the score for a text that matches one
\* or more of the pattern's text regexes is at least the score for a text
\* that matches none.
C25_TextNeverLowersScore ==
    (op = "score" /\ VisualIndices(pattern) # { } /\ TextMatchCount(pattern) >= 1)
    => match_score >= ScoreWithoutText(pattern)

\* (0.4 * sum + 0.3 * t + (0.1 if t > 1 else 0)) / (v + t) for pattern k,
\* before min(..., 1.0)
UncappedScore(k) ==
    (MulFrac(SumConfidence(VisualIndices(k)), 4, 10)
     + TextMatchCount(k) * Frac(3, 10)
     + (IF TextMatchCount(k) > 1 THEN Frac(1, 10) ELSE 0))
    \div (Cardinality(VisualIndices(k)) + TextMatchCount(k))

MissingFields(inv) ==
    /\ ParseRequest(inv.event) # Raised
    /\ \/ Not(Get(ParseRequest(inv.event), "image_key", None))
       \/ Not(Get(ParseRequest(inv.event), "bucket_name", None))

\* C27: api_handler ends with a response whatever describe_execution
\* answers: it polls at most max_wait_time / poll_interval = 150 times,
\* each poll that leaves it running counts towards that budget; it responds
\* 200 exactly when it has seen SUCCEEDED, 500 when it has seen FAILED,
\* ABORTED or TIMED_OUT, 504 exactly when the execution still runs at the
\* 150th poll; it calls start_execution at most once, and not at all (400)
\* when image_key or bucket_name is missing.
C27_ApiHandlerTerminates ==
    \A i \in 1..Len(api.requests) :
        LET inv == api.requests[i]
            ended == inv.status \in { "SUCCEEDED", "FAILED", "ABORTED", "TIMED_OUT" }
        IN  /\ inv.polls <= max_wait_time \div poll_interval
            /\ inv.starts <= 1
            /\ inv.pc = "start" => inv.starts = 0 /\ inv.polls = 0
            /\ inv.pc = "poll"
               => /\ inv.starts = 1
                  /\ ~ ended
                  /\ inv.waited_time = inv.polls * poll_interval
                  /\ inv.waited_time < max_wait_time
            /\ inv.pc = "done"
               => /\ inv.response.statusCode \in { 200, 400, 500, 504 }
                  /\ inv.response.statusCode = 200 <=> inv.status = "SUCCEEDED"
                  /\ inv.status \in { "FAILED", "ABORTED", "TIMED_OUT" }
                     => inv.response.statusCode = 500
                  /\ inv.response.statusCode = 504
                     <=> /\ inv.polls = max_wait_time \div poll_interval
                         /\ ~ ended
                  /\ inv.polls > 0 /\ ~ ended => inv.waited_time = max_wait_time
            /\ MissingFields(inv)
               => /\ inv.starts = 0
                  /\ inv.pc = "done" => inv.response.statusCode = 400
            /\ inv.response.statusCode = 400 => MissingFields(inv)

\* the execution still runs at the 150th poll: 504 after 300 seconds
C27_Witness ==
    /\ Len(api.requests) = 1
    /\ api.requests[1].pc = "done"
    /\ api.requests[1].starts = 1
    /\ api.requests[1].polls = 150
    /\ api.requests[1].waited_time = 300
    /\ api.requests[1].response.statusCode = 504

\* api_handler has answered request i with statusCode 200 and success true
RespondedSuccess(i) ==
    /\ i \in 1..Len(api.requests)
    /\ api.requests[i].pc = "done"
    /\ api.requests[i].response.statusCode = 200
    /\ api.requests[i].response.body.success

\* C28: whenever api_handler responds 200 with success true, the output of
\* the pipeline it reports is a completed analysis: the aggregator's
\* statusCode is 200 and analysis_complete is true.
C28_SuccessIsCompletedAnalysis ==
    RespondedSuccess(1)
    => LET output == api.requests[1].response.body.analysis_result
       IN  /\ output.statusCode = 200
           /\ Get(output.body, "analysis_complete", FALSE)

\* C29: two requests that both call start_execution, one of which has
\* started its execution, call it with different execution names.
C29_DistinctExecutionNames ==
    \A i, j \in 1..Len(api.requests) :
        (/\ i # j
         /\ api.requests[i].starts = 1
         /\ api.requests[j].starts = 1
         /\ Named(api.names, api.requests[i].execution_name) # { })
        => api.requests[i].execution_name # api.requests[j].execution_name

\* the list of branch results the handler was given
ParallelResultsGiven ==
    IF event.type = "list" THEN event.items ELSE Get(event.dict, "body", << >>)

\* the event with its two branch results in the other order
Swapped ==
    LET items == << ParallelResultsGiven[2], ParallelResultsGiven[1] >>
    IN  IF event.type = "list" THEN ListEvent(items)
        ELSE DictEvent([ event.dict EXCEPT !.body = items ])

\* C30: for two branch results (dicts, as the branch handlers return them)
\* the aggregate handler's response, status code and body, is the same for
\* either order of the two in its input.
C30_BranchOrderIrrelevant ==
    (/\ op = "aggregate"
     /\ Len(ParallelResultsGiven) = 2
     /\ IsDict(ParallelResultsGiven[1])
     /\ IsDict(ParallelResultsGiven[2]))
    => response = handler(Swapped)

\* the text result came first and the classification result second, and
\* the analysis is complete
C30_Witness ==
    /\ op = "aggregate"
    /\ event.type = "list"
    /\ Len(event.items) = 2
    /\ IsDict(event.items[1])
    /\ IsDict(event.items[2])
    /\ "extracted_text" \in DOMAIN Get(event.items[1], "body", EmptyDict)
    /\ "classifications" \in DOMAIN Get(event.items[2], "body", EmptyDict)
    /\ event.items[2].body.classifications # << >>
    /\ response.statusCode = 200
    /\ response.body.analysis_complete
    /\ response = handler(ListEvent(<< event.items[2], event.items[1] >>))

====
